---- MODULE Spec2Model ----
(***************************************************************************)
(* State-machine model of the AVWatch ingestion pipeline                   *)
(* (scripts/seed-data.ts, geocoding variant): main, seedNHTSAData, the     *)
(* geocoding resolver with its two process-local caches, the per-record    *)
(* normalizer and the upsert writer.                                       *)
(*                                                                         *)
(* Coordinates are integers in units of 0.0001 degree, so 0.5 degree is    *)
(* 5000, the city jitter of (Math.random() - 0.5) * 0.04 is                *)
(* (r - 50) * 4 for r = 100 * Math.random(), and the state jitter of       *)
(* (Math.random() - 0.5) * 0.1 is (r - 50) * 10.                           *)
(*                                                                         *)
(* JavaScript is single-threaded and cooperative: code between two awaits  *)
(* is one atomic step.  Promise.all(batch.map(f)) runs every f up to its   *)
(* first await, in order, before any response is delivered; each response  *)
(* then resumes one task, which runs to its end.                           *)
(***************************************************************************)
EXTENDS Integers, Sequences, FiniteSets, TLC

VARIABLES
    env,                 \* what the environment of this behaviour may do
    adsSource,           \* rows served by NHTSA_ADS_URL
    adasSource,          \* rows served by NHTSA_ADAS_URL
    run,                 \* number of the current process (one run of main)
    pc,                  \* position of main / seedNHTSAData
    adsRecords,          \* seedNHTSAData: const adsRecords
    adasRecords,         \* seedNHTSAData: const adasRecords
    locations,           \* preGeocodeAllCities: const locations
    i,                   \* index of the current for loop
    tasks,               \* the promises of the current Promise.all
    adsProcessed,        \* seedNHTSAData: adsProcessed
    adasProcessed,       \* seedNHTSAData: adasProcessed
    totals,              \* seedNHTSAData: the six let counters
    geocodeCache,        \* module-level Map geocodeCache
    streetGeocodeCache,  \* module-level Map streetGeocodeCache
    incidents,           \* table incidents of the storage service
    data_sources,        \* table data_sources
    sync_log,            \* table sync_log
    hist,                \* history of the run, for stating properties
    call                 \* one call of a parsing function: argument and value

vars == <<env, adsSource, adasSource, run, pc, adsRecords, adasRecords,
          locations, i, tasks, adsProcessed, adasProcessed, totals,
          geocodeCache, streetGeocodeCache, incidents, data_sources,
          sync_log, hist, call>>

\* What no step of main changes: the inputs, and call
inputVars == <<env, adsSource, adasSource, call>>
storageVars == <<incidents, data_sources, sync_log>>
cacheVars == <<geocodeCache, streetGeocodeCache>>
seedVars == <<adsRecords, adasRecords, locations, i, tasks, adsProcessed,
              adasProcessed, totals>>

(***************************************************************************)
(* Bounds of the model.  The loop strides of the source (50 cities per     *)
(* pre-geocoding batch, 20 records per processing batch, 50 incidents per  *)
(* upsert, the first 500 ADAS rows) are scaled down so that several        *)
(* batches occur within a CSV of a few rows.                               *)
(***************************************************************************)
MaxADS == 3
MaxADAS == 2
OneRunADS == 2
OneRunADAS == 1
cityBatchSize == 2
adsBatchSize == 2
batchSize == 2
adasLimit == 1
MaxChars == 2

\* The longest CSV line
MaxLine == 4

\* The most words of a manufacturer name
MaxWords == 2

\* null where a GeocodedLocation or a coordinate pair is expected, and where a
\* string is expected
NULL == [null |-> TRUE]
NoString == "<null>"

Min(a, b) == IF a < b THEN a ELSE b

\* Variant: everything from index from on
SliceToEnd(s, from, to) == SubSeq(s, from + 1, Len(s))

\* Array.prototype.slice(from, to) on a 0-based array held as a 1-based sequence.
Slice(s, from, to) == SubSeq(s, from + 1, Min(to, Len(s)))

EmptyMap == [k \in {} |-> NULL]
\* Map.prototype.has / get / set
Has(m, k) == k \in DOMAIN m
Get(m, k) == IF k \in DOMAIN m THEN m[k] ELSE NULL
Put(m, k, v) == [x \in DOMAIN m \cup {k} |-> IF x = k THEN v ELSE m[x]]

(***************************************************************************)
(* Strings.  The model's fields range over a few tokens; toLowerCase and   *)
(* parseFloat are given on exactly these.                                  *)
(***************************************************************************)
ToLowerCase(s) ==
    CASE s = "Austin" -> "austin"
      [] s = "AUSTIN" -> "austin"
      [] s = "TX" -> "tx"
      [] s = "CA" -> "ca"
      [] s = "San Francisco" -> "san francisco"
      [] s = "Main Street" -> "main street"
      [] s = "Yes" -> "yes"
      [] s = "GU" -> "gu"
      [] s = "Hagatna" -> "hagatna"
      [] s = "Texas" -> "texas"
      [] OTHER -> s

\* parseFloat, in units of 0.0001 degree
ParseFloat(s) ==
    CASE s = "30.2672" -> 302672
      [] s = "18" -> 180000
      [] s = "17.9999" -> 179999
      [] s = "72" -> 720000
      [] s = "72.0001" -> 720001
      [] s = "-97.7431" -> -977431
      [] s = "-65" -> -650000
      [] s = "-64.9999" -> -649999
      [] s = "-180" -> -1800000
      [] s = "-180.0001" -> -1800001

\* isNaN(parseFloat(s))
IsNaNFloat(s) ==
    s \notin {"30.2672", "18", "17.9999", "72", "72.0001", "-97.7431", "-65",
              "-64.9999", "-180", "-180.0001"}

STATE_COORDS ==
    [CA |-> [lat |-> 377749, lng |-> -1224194, city |-> "San Francisco"],
     TX |-> [lat |-> 302672, lng |-> -977431, city |-> "Austin"]]

InStateCoords(state) == state \in DOMAIN STATE_COORDS

(***************************************************************************)
(* Raw records.  A row of the CSV, restricted to the columns the resolver  *)
(* and the external_id read.  parseCSV trims every field, so no value has  *)
(* surrounding white space and String.prototype.trim changes none of them. *)
(***************************************************************************)
Rec(rn, city, state, lat, lng, unknown, narrative) ==
    [ReportNumber |-> rn, City |-> city, State |-> state,
     Latitude |-> lat, Longitude |-> lng,
     LatitudeUnknown |-> unknown, LongitudeUnknown |-> "",
     Narrative |-> narrative]

Trim(s) == s

Point(lat, lng) == [lat |-> lat, lng |-> lng]

\* Variant: the bounds of the accepted range are themselves rejected
parseNHTSACoordinatesStrict(record) ==
    LET latStr == Trim(record.Latitude)
        lngStr == Trim(record.Longitude)
        latUnknown == ToLowerCase(record.LatitudeUnknown) = "yes"
        lngUnknown == ToLowerCase(record.LongitudeUnknown) = "yes"
        lat == ParseFloat(latStr)
        lng == ParseFloat(lngStr)
    IN  IF latUnknown \/ lngUnknown THEN NULL
        ELSE IF latStr = "" \/ lngStr = "" THEN NULL
        ELSE IF IsNaNFloat(latStr) \/ IsNaNFloat(lngStr) THEN NULL
        ELSE IF lat <= 180000 \/ lat >= 720000 \/ lng <= -1800000 \/ lng >= -650000
             THEN NULL
        ELSE Point(lat, lng)

parseNHTSACoordinates(record) ==
    LET latStr == Trim(record.Latitude)
        lngStr == Trim(record.Longitude)
        latUnknown == ToLowerCase(record.LatitudeUnknown) = "yes"
        lngUnknown == ToLowerCase(record.LongitudeUnknown) = "yes"
        lat == ParseFloat(latStr)
        lng == ParseFloat(lngStr)
    IN  IF latUnknown \/ lngUnknown THEN NULL
        ELSE IF latStr = "" \/ lngStr = "" THEN NULL
        ELSE IF IsNaNFloat(latStr) \/ IsNaNFloat(lngStr) THEN NULL
        ELSE IF lat < 180000 \/ lat > 720000 \/ lng < -1800000 \/ lng > -650000
             THEN NULL
        ELSE Point(lat, lng)

(***************************************************************************)
(* extractLocationFromNarrative on the narratives of the model: the "on    *)
(* <street>" rule matches "on Main Street" and the leading "on " is        *)
(* stripped; no rule matches a narrative without a street phrase.          *)
(***************************************************************************)
extractLocationFromNarrative(narrative) ==
    CASE narrative = "" -> NoString
      [] narrative = "Crash on Main Street" -> "Main Street"
      [] OTHER -> NoString

\* geocodeLocation / getCoordinates: const cacheKey
CityKey(city, state) == ToLowerCase(city) \o "," \o ToLowerCase(state)

\* geocodeStreetAddress: const cacheKey
StreetKey(address, city, state) ==
    "street:" \o ToLowerCase(address) \o "," \o ToLowerCase(city) \o ","
        \o ToLowerCase(state)

\* processADSRecord / processADASRecord: the first three constants
ReportNumberOf(kind, record, index) ==
    IF record.ReportNumber # "" THEN record.ReportNumber
    ELSE (IF kind = "ads" THEN "ADS-" ELSE "ADAS-") \o ToString(index)

StateOf(record) == IF record.State # "" THEN record.State ELSE "CA"

CityOf(record) ==
    IF record.City # "" THEN record.City
    ELSE IF InStateCoords(StateOf(record))
         THEN STATE_COORDS[StateOf(record)].city
         ELSE "Unknown"

ExternalId(kind, record, index) ==
    (IF kind = "ads" THEN "nhtsa-ads-" ELSE "nhtsa-adas-")
        \o ReportNumberOf(kind, record, index)

(***************************************************************************)
(* getCoordinates(city, state) with the two values of Math.random() it     *)
(* draws given as rLat, rLng in 0..99 (hundredths).                        *)
(***************************************************************************)
\* Variant: the jitter of the state fallback is used for a cached city too
getCoordinatesWideJitter(cache, city, state, rLat, rLng) ==
    LET cached == Get(cache, CityKey(city, state))
        stateCoords == IF InStateCoords(state) THEN STATE_COORDS[state]
                       ELSE STATE_COORDS["CA"]
    IN  IF cached # NULL
        THEN Point(cached.lat + (rLat - 50) * 10, cached.lng + (rLng - 50) * 10)
        ELSE Point(stateCoords.lat + (rLat - 50) * 10,
                   stateCoords.lng + (rLng - 50) * 10)

getCoordinates(cache, city, state, rLat, rLng) ==
    LET cached == Get(cache, CityKey(city, state))
        stateCoords == IF InStateCoords(state) THEN STATE_COORDS[state]
                       ELSE STATE_COORDS["CA"]
    IN  IF cached # NULL
        THEN Point(cached.lat + (rLat - 50) * 4, cached.lng + (rLng - 50) * 4)
        ELSE Point(stateCoords.lat + (rLat - 50) * 10,
                   stateCoords.lng + (rLng - 50) * 10)

Abs(x) == IF x < 0 THEN -x ELSE x

\* geocodeStreetAddress: distance > 0.5, the square root taken on both sides.
\* A difference of more than 0.5 in one coordinate decides it alone, and the
\* squares are then not formed, so that they stay within 32 bits.
TooFar(lat, lng, cityCoords) ==
    \/ Abs(lat - cityCoords.lat) > 5000
    \/ Abs(lng - cityCoords.lng) > 5000
    \/ (lat - cityCoords.lat) * (lat - cityCoords.lat)
        + (lng - cityCoords.lng) * (lng - cityCoords.lng) > 5000 * 5000


(***************************************************************************)
(* The environment.  env.faults names the failures the external services   *)
(* may show in this behaviour, env.rand the values 100 * Math.random()     *)
(* may take, env.runs the number of times the script is run, env.extra     *)
(* further points the geocoding service may answer with.                   *)
(***************************************************************************)
Faults == {"fetch", "geocode", "batch", "sample", "setup", "log"}

\* What the geocoding service knows: the center of a place.
PlaceCenter(city, state) ==
    CASE CityKey(city, state) = "austin,tx" -> Point(302672, -977431)
      [] CityKey(city, state) = "san francisco,ca" -> Point(377749, -1224194)
      [] OTHER -> NULL

Response(kind, lat, lng) == [kind |-> kind, lat |-> lat, lng |-> lng]

FailureResponses ==
    {Response("throw", 0, 0), Response("notok", 0, 0), Response("empty", 0, 0)}

\* The answers fetch(url) may give to geocodeLocation(city, state)
CityResponses(city, state) ==
    (IF "geocode" \in env.faults THEN FailureResponses ELSE {})
    \cup (IF PlaceCenter(city, state) = NULL THEN {Response("empty", 0, 0)}
          ELSE {Response("ok", PlaceCenter(city, state).lat,
                         PlaceCenter(city, state).lng)})
    \cup {Response("ok", p.lat, p.lng) : p \in env.extra}

\* The top results the service may give for a street query: a point close to
\* the center of Austin, one exactly 0.5 degree from it, one just beyond.
StreetPoints ==
    {Point(302672 + 100, -977431 + 100), Point(302672 + 5000, -977431),
     Point(302672 + 5000, -977431 + 1)}

StreetResponses ==
    (IF "geocode" \in env.faults THEN FailureResponses ELSE {})
    \cup {Response("ok", p.lat, p.lng) : p \in StreetPoints \cup env.extra}

(***************************************************************************)
(* preGeocodeAllCities: the distinct "city|state" of the records, in       *)
(* insertion order (a Set keeps it), as pairs.                             *)
(***************************************************************************)
\* Variant: only the first record's city and state are collected
UniqueLocationsOfFirst(records) ==
    IF records = <<>> \/ Trim(records[1].City) = "" \/ Trim(records[1].State) = ""
    THEN <<>>
    ELSE <<<<Trim(records[1].City), Trim(records[1].State)>>>>

RECURSIVE UniqueLocations(_)
UniqueLocations(records) ==
    IF records = <<>> THEN <<>>
    ELSE LET front == UniqueLocations(SubSeq(records, 1, Len(records) - 1))
             record == records[Len(records)]
             city == Trim(record.City)
             state == Trim(record.State)
             loc == <<city, state>>
         IN  IF city # "" /\ state # ""
                /\ \A k \in 1..Len(front) : front[k] # loc
             THEN Append(front, loc)
             ELSE front

(***************************************************************************)
(* Tasks of a Promise.all.  A task is one call of the mapped function: a   *)
(* city lookup (preGeocodeAllCities) or a record (processADSRecord,        *)
(* processADASRecord).  st is "wait" while its fetch is outstanding.       *)
(* afterFail, contacted, ret and the trace of a result are history.        *)
(***************************************************************************)
Task(kind, st, idx, key, afterFail, contacted, ret, out) ==
    [kind |-> kind, st |-> st, idx |-> idx, key |-> key,
     afterFail |-> afterFail, contacted |-> contacted, ret |-> ret,
     out |-> out]

Trace(record, calls, svc, cmp, tier) ==
    [record |-> record, calls |-> calls, svc |-> svc, cmp |-> cmp,
     tier |-> tier]

\* Variant: every record located by coordinates of its own, read or geocoded
\* from its street, is tagged hasRealCoords
FinishRecordAnyReal(kind, record, index, realCoords, streetCoords, fallback, trace) ==
    [incident |->
        [external_id |-> ExternalId(kind, record, index),
         source |-> "nhtsa",
         location |-> IF realCoords # NULL THEN realCoords
                      ELSE IF streetCoords # NULL THEN streetCoords
                      ELSE fallback,
         city |-> CityOf(record)],
     hasRealCoords |-> realCoords # NULL \/ streetCoords # NULL,
     hasStreetCoords |-> streetCoords # NULL,
     trace |-> trace]

\* processADSRecord / processADASRecord from "Use best available coordinates"
\* on; fallback is the value of getCoordinates(city, state).  location holds
\* the pair the source writes as SRID=4326;POINT(lng lat).
FinishRecord(kind, record, index, realCoords, streetCoords, fallback, trace) ==
    [incident |->
        [external_id |-> ExternalId(kind, record, index),
         source |-> "nhtsa",
         location |-> IF realCoords # NULL THEN realCoords
                      ELSE IF streetCoords # NULL THEN streetCoords
                      ELSE fallback,
         city |-> CityOf(record)],
     hasRealCoords |-> realCoords # NULL,
     hasStreetCoords |-> streetCoords # NULL,
     trace |-> trace]

FallbackTier(cache, record) ==
    IF Get(cache, CityKey(CityOf(record), StateOf(record))) # NULL
    THEN "city" ELSE "state"


\* geocodeLocation after "const response = await fetch(url)": the value cached
\* and returned
geocodeLocationResult(resp) ==
    IF resp.kind = "ok" THEN Point(resp.lat, resp.lng) ELSE NULL

\* Variant: the top result is taken whatever its distance from the city
geocodeStreetAddressNoCheck(resp, cityCoords) ==
    IF resp.kind = "ok" THEN Point(resp.lat, resp.lng) ELSE NULL

\* geocodeStreetAddress after "const response = await fetch(url)": the value
\* cached and returned; cityCoords is geocodeCache.get("city,state")
geocodeStreetAddressResult(resp, cityCoords) ==
    IF resp.kind # "ok" THEN NULL
    ELSE IF cityCoords # NULL /\ TooFar(resp.lat, resp.lng, cityCoords) THEN NULL
    ELSE Point(resp.lat, resp.lng)

(***************************************************************************)
(* Storage.  A row of incidents carries the columns the claims read;       *)
(* reported_at is the run that wrote it last.                              *)
(***************************************************************************)
Row(id, incident, now) ==
    [id |-> id, external_id |-> incident.external_id,
     source |-> incident.source, reported_at |-> now]

\* Variant: a plain insert, whatever the table holds
UpsertOneAppend(table, incident, now) ==
    Append(table, Row(Len(table) + 1, incident, now))

\* upsert(row, { onConflict: 'external_id' }): update in place or insert
UpsertOne(table, incident, now) ==
    IF \E k \in 1..Len(table) : table[k].external_id = incident.external_id
    THEN [k \in 1..Len(table) |->
            IF table[k].external_id = incident.external_id
            THEN Row(table[k].id, incident, now) ELSE table[k]]
    ELSE Append(table, Row(Len(table) + 1, incident, now))

\* The rows of a batch are upserted one after the other; next is the table
\* after the first of them.
RECURSIVE UpsertAll(_, _, _)
UpsertAll(table, batch, now) ==
    IF batch = <<>> THEN table
    ELSE CHOOSE result \in {UpsertAll(next, Tail(batch), now) :
                               next \in {UpsertOne(table, Head(batch), now)}} : TRUE

\* update({ records_count }).eq('name', name)
UpdateCount(ds, name, n) ==
    IF name \in DOMAIN ds THEN [ds EXCEPT ![name] = n] ELSE ds

CountSource(table, source) ==
    Cardinality({k \in 1..Len(table) : table[k].source = source})

DataSourceNames ==
    {"NHTSA SGO (ADS)", "NHTSA SGO (ADAS)", "California DMV", "CPUC",
     "Community Reports"}

Sample(id, source) == [external_id |-> id, source |-> source]

dmvIncidents ==
    <<Sample("ca-dmv-2024-001", "dmv"), Sample("ca-dmv-2024-002", "dmv"),
      Sample("ca-dmv-2024-003", "dmv"), Sample("ca-dmv-2024-004", "dmv"),
      Sample("ca-dmv-2024-005", "dmv")>>

cpucIncidents ==
    <<Sample("cpuc-2024-q4-001", "cpuc"), Sample("cpuc-2024-q4-002", "cpuc"),
      Sample("cpuc-2024-q4-003", "cpuc")>>

\* The elements of s whose index is not in drop, in order
RECURSIVE Keep(_, _)
Keep(s, drop) ==
    IF s = <<>> THEN <<>>
    ELSE LET front == Keep(SubSeq(s, 1, Len(s) - 1), drop)
         IN  IF Len(s) \in drop THEN front ELSE Append(front, s[Len(s)])

(***************************************************************************)
(* History.                                                                *)
(***************************************************************************)
NoTotals ==
    [totalInserted |-> 0, totalSkipped |-> 0, totalErrors |-> 0,
     realCoordsCount |-> 0, streetCoordsCount |-> 0,
     fallbackCoordsCount |-> 0]

\* requests: calls of the geocoding service per cache key; failed: the keys a
\* lookup of which ended in an error, a non-OK response or an empty list; ads,
\* adas: how the fetch of each endpoint ended; upserts: the batches submitted
\* (all four of the current run); prev: count of stored incidents at the end of
\* each earlier run and whether that run stored every batch; called: the
\* functions main has awaited in this run; slept: the pauses of
\* preGeocodeAllCities that have elapsed.
NewHistory(prev) ==
    [requests |-> [k \in {} |-> 0], failed |-> {},
     ads |-> "none", adas |-> "none", upserts |-> <<>>, prev |-> prev,
     called |-> {}, slept |-> 0]

Called(f) == [hist EXCEPT !.called = @ \cup {f}]

\* Variants: the error of a fetch skips the rest of main; it escapes main
FetchFailureSkipsRest == "summary"
FetchFailureEscapes == "aborted"

\* seedNHTSAData: where the catch of its try block leaves the function, at
\* "Update data source records count"
AfterFetchFailure == "countUpdate"

\* requests, with one more for every waiting task of ts
Requested(requests, ts) ==
    [k \in DOMAIN requests \cup {ts[j].key : j \in {n \in 1..Len(ts) : ts[n].st = "wait"}} |->
        (IF k \in DOMAIN requests THEN requests[k] ELSE 0)
        + Cardinality({j \in 1..Len(ts) : ts[j].st = "wait" /\ ts[j].key = k})]

AllDone == \A t \in 1..Len(tasks) : tasks[t].st = "done"


(***************************************************************************)
(* main and seedNHTSAData, one action per awaited step.                    *)
(***************************************************************************)
\* setupDataSources: one upsert per data source; an error is only logged
SetupDataSources ==
    /\ pc = "setup"
    /\ \E bad \in (IF "setup" \in env.faults THEN SUBSET DataSourceNames ELSE {{}}) :
         data_sources' =
            [n \in DOMAIN data_sources \cup (DataSourceNames \ bad) |->
                IF n \in DOMAIN data_sources THEN data_sources[n] ELSE 0]
    /\ pc' = "fetchADS"
    /\ UNCHANGED <<inputVars, run, seedVars, cacheVars, incidents, sync_log>>
    /\ hist' = Called("setupDataSources")

\* const adsRecords = await fetchAndParseCSV(NHTSA_ADS_URL), inside the try
FetchADS ==
    /\ pc = "fetchADS"
    /\ \E ok \in (IF "fetch" \in env.faults THEN BOOLEAN ELSE {TRUE}) :
         IF ok
         THEN /\ adsRecords' = adsSource
              /\ hist' = [hist EXCEPT !.ads = "ok"]
              /\ pc' = "fetchADAS"
         ELSE /\ adsRecords' = adsRecords
              /\ hist' = [hist EXCEPT !.ads = "fail"]
              /\ pc' = AfterFetchFailure
    /\ UNCHANGED <<inputVars, run, adasRecords, locations, i, tasks,
                   adsProcessed, adasProcessed, totals, cacheVars, storageVars>>

\* const adasRecords = await fetchAndParseCSV(NHTSA_ADAS_URL), inside the try
FetchADAS ==
    /\ pc = "fetchADAS"
    /\ \E ok \in (IF "fetch" \in env.faults THEN BOOLEAN ELSE {TRUE}) :
         IF ok
         THEN /\ adasRecords' = adasSource
              /\ hist' = [hist EXCEPT !.adas = "ok"]
              /\ pc' = "pregeo"
         ELSE /\ adasRecords' = adasRecords
              /\ hist' = [hist EXCEPT !.adas = "fail"]
              /\ pc' = AfterFetchFailure
    /\ UNCHANGED <<inputVars, run, adsRecords, locations, i, tasks,
                   adsProcessed, adasProcessed, totals, cacheVars, storageVars>>

adasToProcess == Slice(adasRecords, 0, adasLimit)

\* preGeocodeAllCities(allRecords) up to its for loop
PreGeocodeAllCities ==
    /\ pc = "pregeo"
    /\ locations' = UniqueLocations(adsRecords \o adasToProcess)
    /\ i' = 0
    /\ pc' = "cityBatch"
    /\ UNCHANGED <<inputVars, run, adsRecords, adasRecords, tasks, adsProcessed,
                   adasProcessed, totals, cacheVars, storageVars, hist>>

\* geocodeLocation(city, state) up to "await fetch(url)"
StartCityTask(loc, idx) ==
    LET key == CityKey(loc[1], loc[2])
    IN  IF Has(geocodeCache, key)
        THEN Task("city", "done", idx, key, key \in hist.failed, FALSE,
                  Get(geocodeCache, key), NULL)
        ELSE Task("city", "wait", idx, key, key \in hist.failed, TRUE, NULL, NULL)

\* One turn of the for loop of preGeocodeAllCities: Promise.all(batch.map(...))
\* starts every lookup of the batch; past the last batch the loop ends.
StartCityBatch ==
    /\ pc = "cityBatch"
    /\ IF i < Len(locations)
       THEN LET batch == Slice(locations, i, i + cityBatchSize)
                started == [k \in 1..Len(batch) |-> StartCityTask(batch[k], i + k - 1)]
            IN  /\ tasks' = started
                /\ hist' = [hist EXCEPT !.requests = Requested(@, started)]
                /\ pc' = "cityWait"
                /\ i' = i
       ELSE /\ tasks' = <<>>
            /\ hist' = hist
            /\ pc' = "adsBatch"
            /\ i' = 0
    /\ UNCHANGED <<inputVars, run, adsRecords, adasRecords, locations,
                   adsProcessed, adasProcessed, totals, cacheVars, storageVars>>

\* The fetch of one city lookup settles and geocodeLocation runs to its end.
CityRespond(t) ==
    /\ pc = "cityWait"
    /\ tasks[t].st = "wait"
    /\ \E resp \in CityResponses(locations[tasks[t].idx + 1][1],
                                 locations[tasks[t].idx + 1][2]) :
         LET result == geocodeLocationResult(resp)
         IN  /\ geocodeCache' = Put(geocodeCache, tasks[t].key, result)
             /\ tasks' = [tasks EXCEPT ![t].st = "done", ![t].ret = result]
             /\ hist' = [hist EXCEPT !.failed =
                            IF resp.kind = "ok" THEN @ ELSE @ \cup {tasks[t].key}]
    /\ UNCHANGED <<inputVars, run, pc, adsRecords, adasRecords, locations, i,
                   adsProcessed, adasProcessed, totals, streetGeocodeCache,
                   storageVars>>

\* Promise.all of a city batch resolves
CityBatchDone ==
    /\ pc = "cityWait"
    /\ AllDone
    /\ pc' = IF i + cityBatchSize < Len(locations) THEN "citySleep" ELSE "cityBatch"
    /\ i' = IF i + cityBatchSize < Len(locations) THEN i ELSE i + cityBatchSize
    /\ UNCHANGED <<inputVars, run, adsRecords, adasRecords, locations, tasks,
                   adsProcessed, adasProcessed, totals, cacheVars, storageVars,
                   hist>>

\* await new Promise(resolve => setTimeout(resolve, 100))
CitySleep ==
    /\ pc = "citySleep"
    /\ pc' = "cityBatch"
    /\ i' = i + cityBatchSize
    /\ hist' = [hist EXCEPT !.slept = @ + 1]
    /\ UNCHANGED <<inputVars, run, adsRecords, adasRecords, locations, tasks,
                   adsProcessed, adasProcessed, totals, cacheVars, storageVars>>


RecordsOf(kind) == IF kind = "ads" THEN adsRecords ELSE adasToProcess

\* processADSRecord / processADASRecord(record, index) up to the first await
\* that has to wait: a record with real coordinates, without an extracted
\* address or with a cached street key runs to its end; r holds the two values
\* of Math.random() for getCoordinates.
StartRecordTask(kind, record, index, r) ==
    LET realCoords == parseNHTSACoordinates(record)
        city == CityOf(record)
        state == StateOf(record)
        extractedAddress == extractLocationFromNarrative(record.Narrative)
        key == StreetKey(extractedAddress, city, state)
        cached == Get(streetGeocodeCache, key)
        fallback == getCoordinates(geocodeCache, city, state, r[1], r[2])
        tier == FallbackTier(geocodeCache, record)
    IN  IF realCoords # NULL
        THEN Task(kind, "done", index, NoString, FALSE, FALSE, NULL,
                  FinishRecord(kind, record, index, realCoords, NULL, NULL,
                               Trace(record, {}, NULL, NULL, "real")))
        ELSE IF extractedAddress = NoString
        THEN Task(kind, "done", index, NoString, FALSE, FALSE, NULL,
                  FinishRecord(kind, record, index, NULL, NULL, fallback,
                               Trace(record, {"extract"}, NULL, NULL, tier)))
        ELSE IF Has(streetGeocodeCache, key)
        THEN Task(kind, "done", index, key, key \in hist.failed, FALSE, cached,
                  FinishRecord(kind, record, index, NULL, cached, fallback,
                               Trace(record, {"extract", "street"}, NULL, NULL,
                                     IF cached # NULL THEN "street" ELSE tier)))
        ELSE Task(kind, "wait", index, key, key \in hist.failed, TRUE, NULL, NULL)

\* One turn of the processing loop of seedNHTSAData: Promise.all(batch.map(...))
\* starts every record of the batch; past the last batch the loop ends.
StartRecordBatch(kind) ==
    /\ pc = kind \o "Batch"
    /\ IF i < Len(RecordsOf(kind))
       THEN LET batch == Slice(RecordsOf(kind), i, i + adsBatchSize)
            IN  \E rs \in [1..Len(batch) -> env.rand \X env.rand] :
                  LET started == [k \in 1..Len(batch) |->
                                    StartRecordTask(kind, batch[k], i + k - 1, rs[k])]
                  IN  /\ tasks' = started
                      /\ hist' = [hist EXCEPT !.requests = Requested(@, started)]
                      /\ pc' = kind \o "Wait"
       ELSE /\ tasks' = <<>>
            /\ hist' = hist
            /\ pc' = kind \o "Count"
    /\ UNCHANGED <<inputVars, run, adsRecords, adasRecords, locations, i,
                   adsProcessed, adasProcessed, totals, cacheVars, storageVars>>

\* The fetch of one street lookup settles; geocodeStreetAddress and then the
\* record's processADSRecord / processADASRecord run to their end.
RecordRespond(t) ==
    /\ pc \in {"adsWait", "adasWait"}
    /\ tasks[t].st = "wait"
    /\ \E resp \in StreetResponses, r \in env.rand \X env.rand :
         LET kind == tasks[t].kind
             record == RecordsOf(kind)[tasks[t].idx + 1]
             city == CityOf(record)
             state == StateOf(record)
             cityCoords == Get(geocodeCache, CityKey(city, state))
             result == geocodeStreetAddressResult(resp, cityCoords)
             fallback == getCoordinates(geocodeCache, city, state, r[1], r[2])
             trace == Trace(record, {"extract", "street", "service"},
                            geocodeLocationResult(resp),
                            IF resp.kind = "ok" THEN cityCoords ELSE NULL,
                            IF result # NULL THEN "street"
                            ELSE FallbackTier(geocodeCache, record))
         IN  /\ streetGeocodeCache' = Put(streetGeocodeCache, tasks[t].key, result)
             /\ tasks' = [tasks EXCEPT
                            ![t].st = "done", ![t].ret = result,
                            ![t].out = FinishRecord(kind, record, tasks[t].idx,
                                                    NULL, result, fallback, trace)]
             /\ hist' = [hist EXCEPT !.failed =
                            IF resp.kind = "ok" THEN @ ELSE @ \cup {tasks[t].key}]
    /\ UNCHANGED <<inputVars, run, pc, adsRecords, adasRecords, locations, i,
                   adsProcessed, adasProcessed, totals, geocodeCache,
                   storageVars>>

\* Promise.all of a processing batch resolves: adsProcessed.push(...validResults)
RecordBatchDone(kind) ==
    /\ pc = kind \o "Wait"
    /\ AllDone
    /\ LET results == [k \in 1..Len(tasks) |-> tasks[k].out]
       IN  IF kind = "ads"
           THEN adsProcessed' = adsProcessed \o results /\ adasProcessed' = adasProcessed
           ELSE adasProcessed' = adasProcessed \o results /\ adsProcessed' = adsProcessed
    /\ i' = i + adsBatchSize
    /\ pc' = kind \o "Batch"
    /\ UNCHANGED <<inputVars, run, adsRecords, adasRecords, locations, tasks,
                   totals, cacheVars, storageVars, hist>>

ProcessedOf(kind) == IF kind = "ads" THEN adsProcessed ELSE adasProcessed

\* "Count coordinate sources" and "Extract incidents for insertion"
CountCoordinateSources(kind) ==
    /\ pc = kind \o "Count"
    /\ LET processed == ProcessedOf(kind)
           real == Cardinality({k \in 1..Len(processed) : processed[k].hasRealCoords})
           street == Cardinality({k \in 1..Len(processed) : processed[k].hasStreetCoords})
           fallback == Len(processed) - real - street
       IN  totals' = [totals EXCEPT
                        !.realCoordsCount = @ + real,
                        !.streetCoordsCount = @ + street,
                        !.fallbackCoordsCount = @ + fallback]
    /\ i' = 0
    /\ pc' = kind \o "Upsert"
    /\ UNCHANGED <<inputVars, run, adsRecords, adasRecords, locations, tasks,
                   adsProcessed, adasProcessed, cacheVars, storageVars, hist>>

IncidentsOf(kind) ==
    [k \in 1..Len(ProcessedOf(kind)) |-> ProcessedOf(kind)[k].incident]

UpsertOutcome(error, returned) == [error |-> error, returned |-> returned]

\* Variant: the store may return one row more than the batch holds
UpsertOutcomesAnyCount(batch) ==
    IF "batch" \in env.faults
    THEN {UpsertOutcome(TRUE, 0)}
         \cup {UpsertOutcome(FALSE, n) : n \in 0..(Len(batch) + 1)}
    ELSE {UpsertOutcome(FALSE, Len(batch))}

\* What upsert(batch).select('id') may answer: an error, or the rows it returns
UpsertOutcomes(batch) ==
    IF "batch" \in env.faults
    THEN {UpsertOutcome(TRUE, 0)}
         \cup {UpsertOutcome(FALSE, n) : n \in 0..Len(batch)}
    ELSE {UpsertOutcome(FALSE, Len(batch))}

\* Variant: a failed batch ends the insert loop
AfterUpsertStop(kind, outcome) ==
    IF outcome.error THEN (IF kind = "ads" THEN "adasBatch" ELSE "countUpdate")
    ELSE kind \o "Upsert"

\* The position after one upsert: the loop goes on whatever the answer was
AfterUpsert(kind, outcome) == kind \o "Upsert"

\* One turn of an insert loop of seedNHTSAData; past the last batch the loop ends.
UpsertBatch(kind) ==
    /\ pc = kind \o "Upsert"
    /\ IF i < Len(IncidentsOf(kind))
       THEN LET batch == Slice(IncidentsOf(kind), i, i + batchSize)
            IN  \E outcome \in UpsertOutcomes(batch) :
                  /\ incidents' = IF outcome.error THEN incidents
                                  ELSE UpsertAll(incidents, batch, run)
                  /\ totals' =
                       IF outcome.error
                       THEN [totals EXCEPT !.totalErrors = @ + Len(batch)]
                       ELSE [totals EXCEPT
                               !.totalInserted = @ + outcome.returned,
                               !.totalSkipped = @ + Len(batch) - outcome.returned]
                  /\ hist' = [hist EXCEPT !.upserts =
                                Append(@, [kind |-> kind, from |-> i,
                                           size |-> Len(batch),
                                           error |-> outcome.error,
                                           returned |-> outcome.returned])]
                  /\ pc' = AfterUpsert(kind, outcome)
                  /\ i' = i + batchSize
       ELSE /\ pc' = IF kind = "ads" THEN "adasBatch" ELSE "countUpdate"
            /\ i' = 0
            /\ UNCHANGED <<incidents, totals, hist>>
    /\ UNCHANGED <<inputVars, run, adsRecords, adasRecords, locations, tasks,
                   adsProcessed, adasProcessed, cacheVars, data_sources,
                   sync_log>>


\* seedNHTSAData after the try/catch: "Update data source records count", and
\* the return of the six counters; the other locals end with the call.
UpdateRecordsCount ==
    /\ pc = "countUpdate"
    /\ LET n == CountSource(incidents, "nhtsa")
       IN  data_sources' = UpdateCount(UpdateCount(data_sources, "NHTSA SGO (ADS)", n),
                                       "NHTSA SGO (ADAS)", n)
    /\ pc' = "logNHTSA"
    /\ adsRecords' = <<>>
    /\ adasRecords' = <<>>
    /\ locations' = <<>>
    /\ i' = 0
    /\ tasks' = <<>>
    /\ adsProcessed' = <<>>
    /\ adasProcessed' = <<>>
    /\ UNCHANGED <<inputVars, run, totals, cacheVars, incidents, sync_log>>
    /\ hist' = Called("seedNHTSAData")

\* logSync(sourceName, status, recordsProcessed, recordsCreated)
\* Variant: the row of a source is written over the row the log already has
\* for that source
logSyncUpsert(log, sourceName, status, recordsProcessed, recordsCreated) ==
    LET row == [source_name |-> sourceName, status |-> status,
                records_processed |-> recordsProcessed,
                records_created |-> recordsCreated, completed_at |-> run]
        old == {j \in 1..Len(log) : log[j].source_name = sourceName}
    IN  IF old = {} THEN Append(log, row)
        ELSE [j \in 1..Len(log) |-> IF j \in old THEN row ELSE log[j]]

logSync(log, sourceName, status, recordsProcessed, recordsCreated) ==
    Append(log, [source_name |-> sourceName, status |-> status,
                 records_processed |-> recordsProcessed,
                 records_created |-> recordsCreated, completed_at |-> run])

\* Variant: the store may drop the row of any insert
LogInsertedOrNot == BOOLEAN

\* Whether the store takes the row of an insert
LogInserted == IF "log" \in env.faults THEN BOOLEAN ELSE {TRUE}

\* main: await logSync('NHTSA SGO', 'success', ...)
LogNHTSA ==
    /\ pc = "logNHTSA"
    /\ \E ok \in LogInserted :
         sync_log' = IF ok
                     THEN logSync(sync_log, "NHTSA SGO", "success",
                                  totals.totalInserted + totals.totalSkipped,
                                  totals.totalInserted)
                     ELSE sync_log
    /\ pc' = "seedDMV"
    /\ UNCHANGED <<inputVars, run, seedVars, cacheVars, incidents, data_sources>>
    /\ hist' = Called("logSync NHTSA SGO")

SampleFailures(samples) ==
    IF "sample" \in env.faults THEN SUBSET (1..Len(samples)) ELSE {{}}

\* seedDMVSampleData: one upsert per incident, then the data source update
SeedDMVSampleData ==
    /\ pc = "seedDMV"
    /\ \E bad \in SampleFailures(dmvIncidents) :
         incidents' = UpsertAll(incidents, Keep(dmvIncidents, bad), run)
    /\ data_sources' = UpdateCount(data_sources, "California DMV", Len(dmvIncidents))
    /\ pc' = "logDMV"
    /\ UNCHANGED <<inputVars, run, seedVars, cacheVars, sync_log>>
    /\ hist' = Called("seedDMVSampleData")

\* main: await logSync('California DMV', 'success', 5, 5)
LogDMV ==
    /\ pc = "logDMV"
    /\ \E ok \in LogInserted :
         sync_log' = IF ok THEN logSync(sync_log, "California DMV", "success", 5, 5)
                     ELSE sync_log
    /\ pc' = "seedCPUC"
    /\ UNCHANGED <<inputVars, run, seedVars, cacheVars, incidents, data_sources>>
    /\ hist' = Called("logSync California DMV")

\* seedCPUCSampleData
SeedCPUCSampleData ==
    /\ pc = "seedCPUC"
    /\ \E bad \in SampleFailures(cpucIncidents) :
         incidents' = UpsertAll(incidents, Keep(cpucIncidents, bad), run)
    /\ data_sources' = UpdateCount(data_sources, "CPUC", Len(cpucIncidents))
    /\ pc' = "logCPUC"
    /\ UNCHANGED <<inputVars, run, seedVars, cacheVars, sync_log>>
    /\ hist' = Called("seedCPUCSampleData")

\* main: await logSync('CPUC', 'success', 3, 3)
LogCPUC ==
    /\ pc = "logCPUC"
    /\ \E ok \in LogInserted :
         sync_log' = IF ok THEN logSync(sync_log, "CPUC", "success", 3, 3)
                     ELSE sync_log
    /\ pc' = "userCount"
    /\ UNCHANGED <<inputVars, run, seedVars, cacheVars, incidents, data_sources>>
    /\ hist' = Called("logSync CPUC")

\* updateUserReportCount
UpdateUserReportCount ==
    /\ pc = "userCount"
    /\ data_sources' = UpdateCount(data_sources, "Community Reports",
                                   CountSource(incidents, "user_report"))
    /\ pc' = "summary"
    /\ UNCHANGED <<inputVars, run, seedVars, cacheVars, incidents, sync_log>>
    /\ hist' = Called("updateUserReportCount")

RunStoredAll ==
    /\ hist.ads = "ok"
    /\ hist.adas = "ok"
    /\ \A k \in 1..Len(hist.upserts) : ~hist.upserts[k].error

\* main from "Get final counts" to its end: the summary is printed
Summary ==
    /\ pc = "summary"
    /\ hist' = [hist EXCEPT !.prev =
                  Append(@, [count |-> Len(incidents), storedAll |-> RunStoredAll])]
    /\ pc' = "done"
    /\ UNCHANGED <<inputVars, run, seedVars, cacheVars, storageVars>>

\* The script is run again: a new process, with empty caches, on the same
\* storage and the same source rows.
RunAgain ==
    /\ pc = "done"
    /\ run < env.runs
    /\ run' = run + 1
    /\ pc' = "setup"
    /\ adsRecords' = <<>>
    /\ adasRecords' = <<>>
    /\ locations' = <<>>
    /\ i' = 0
    /\ tasks' = <<>>
    /\ adsProcessed' = <<>>
    /\ adasProcessed' = <<>>
    /\ totals' = NoTotals
    /\ geocodeCache' = EmptyMap
    /\ streetGeocodeCache' = EmptyMap
    /\ hist' = NewHistory(hist.prev)
    /\ UNCHANGED <<inputVars, storageVars>>

(***************************************************************************)
(* Parsing of the numeric columns.  A field is the sequence of its          *)
(* characters; an absent column is the empty field.                        *)
(***************************************************************************)
NoCall == [fn |-> "none", done |-> TRUE]

IsDigit(c) == c \in {"0", "1", "2", "3", "4", "5", "6", "7", "8", "9"}

DigitOf(c) ==
    CASE c = "0" -> 0 [] c = "1" -> 1 [] c = "2" -> 2 [] c = "3" -> 3
      [] c = "4" -> 4 [] c = "5" -> 5 [] c = "6" -> 6 [] c = "7" -> 7
      [] c = "8" -> 8 [] c = "9" -> 9

\* The field without its leading white space
RECURSIVE SkipSpace(_)
SkipSpace(s) ==
    IF s # <<>> /\ Head(s) = " " THEN SkipSpace(Tail(s)) ELSE s

\* The longest prefix of s made of digits
RECURSIVE LeadingDigits(_)
LeadingDigits(s) ==
    IF s # <<>> /\ IsDigit(Head(s))
    THEN <<Head(s)>> \o LeadingDigits(Tail(s))
    ELSE <<>>

\* The number written by a sequence of digits
RECURSIVE Decimal(_)
Decimal(ds) ==
    IF ds = <<>> THEN 0
    ELSE 10 * Decimal(SubSeq(ds, 1, Len(ds) - 1)) + DigitOf(ds[Len(ds)])

Number(nan, val) == [nan |-> nan, val |-> val]

\* parseInt(s): white space is skipped, a sign is read, then the digits up to
\* the first other character; NaN when there is no digit
ParseInt(s) ==
    LET t == SkipSpace(s)
        signed == t # <<>> /\ Head(t) \in {"-", "+"}
        digits == LeadingDigits(IF signed THEN Tail(t) ELSE t)
    IN  IF digits = <<>> THEN Number(TRUE, 0)
        ELSE IF signed /\ Head(t) = "-" THEN Number(FALSE, -Decimal(digits))
        ELSE Number(FALSE, Decimal(digits))

\* parseInt(record[first] || record[second] || '0') || 0
ParseCount(first, second) ==
    LET field == IF first # <<>> THEN first
                 ELSE IF second # <<>> THEN second ELSE <<"0">>
        n == ParseInt(field)
    IN  IF n.nan \/ n.val = 0 THEN 0 ELSE n.val

\* const fatalities = ... record['Deaths'] || record['Fatalities'] ...
ParseFatalities ==
    /\ call.fn = "fatalities"
    /\ ~call.done
    /\ call' = [call EXCEPT !.done = TRUE,
                             !.ret = ParseCount(call.arg[1], call.arg[2])]
    /\ UNCHANGED <<env, adsSource, adasSource, run, pc, seedVars, cacheVars,
                   storageVars, hist>>

\* const injuries = ... record['Injuries'] || record['Persons Injured'] ...
ParseInjuries ==
    /\ call.fn = "injuries"
    /\ ~call.done
    /\ call' = [call EXCEPT !.done = TRUE,
                             !.ret = ParseCount(call.arg[1], call.arg[2])]
    /\ UNCHANGED <<env, adsSource, adasSource, run, pc, seedVars, cacheVars,
                   storageVars, hist>>

(***************************************************************************)
(* Dates.  A Date is its local calendar reading, month 0..11 as in          *)
(* JavaScript; the host's zone is a fixed offset of tz hours from UTC.      *)
(***************************************************************************)
DateOf(year, month, day, hours, minutes) ==
    [year |-> year, month |-> month, day |-> day,
     hours |-> hours, minutes |-> minutes]

\* new Date(NaN): what `new Date(string)` gives for a string it cannot read
InvalidDate == [invalid |-> TRUE]

\* new Date().toISOString(): the moment of ingestion
Now == [now |-> TRUE]

IsLeap(year) ==
    (year % 4 = 0 /\ year % 100 # 0) \/ year % 400 = 0

\* Days of month 0..11 of a year
DaysInMonth(year, month) ==
    IF month = 1 THEN (IF IsLeap(year) THEN 29 ELSE 28)
    ELSE IF month \in {3, 5, 8, 10} THEN 30 ELSE 31

\* MakeDay: a day number outside the month runs over into the months after
\* it, or back into the months before it
RECURSIVE RollDays(_, _, _)
RollDays(year, month, day) ==
    IF day > DaysInMonth(year, month)
    THEN IF month = 11
         THEN RollDays(year + 1, 0, day - DaysInMonth(year, month))
         ELSE RollDays(year, month + 1, day - DaysInMonth(year, month))
    ELSE IF day < 1
    THEN IF month = 0
         THEN RollDays(year - 1, 11, day + DaysInMonth(year - 1, 11))
         ELSE RollDays(year, month - 1, day + DaysInMonth(year, month - 1))
    ELSE <<year, month, day>>

\* MakeDate(MakeDay(year, month, day), MakeTime(hours, minutes)): every field
\* out of its range is carried into the next larger one
MakeDate(year, month, day, hours, minutes) ==
    LET total == hours * 60 + minutes
        ymd == RollDays(year + (month \div 12), month % 12,
                        day + (total \div 1440))
    IN  DateOf(ymd[1], ymd[2], ymd[3], (total % 1440) \div 60, total % 60)

\* new Date(year, month, day): local midnight; a year 0..99 is 1900 + year
NewDate(year, month, day) ==
    MakeDate(IF year \in 0..99 THEN 1900 + year ELSE year, month, day, 0, 0)

\* date.setHours(hours, minutes)
setHours(date, hours, minutes) ==
    MakeDate(date.year, date.month, date.day, hours, minutes)

\* date.toISOString(): the UTC reading of the same instant
toISOString(date, tz) ==
    MakeDate(date.year, date.month, date.day, date.hours,
             date.minutes - tz * 60)

\* MONTH_MAP[mon]; -1 stands for undefined
MONTH_MAP(mon) ==
    CASE mon = <<"J", "A", "N">> -> 0
      [] mon = <<"F", "E", "B">> -> 1
      [] mon = <<"M", "A", "R">> -> 2
      [] mon = <<"A", "P", "R">> -> 3
      [] mon = <<"M", "A", "Y">> -> 4
      [] mon = <<"J", "U", "N">> -> 5
      [] mon = <<"J", "U", "L">> -> 6
      [] mon = <<"A", "U", "G">> -> 7
      [] mon = <<"S", "E", "P">> -> 8
      [] mon = <<"O", "C", "T">> -> 9
      [] mon = <<"N", "O", "V">> -> 10
      [] mon = <<"D", "E", "C">> -> 11
      [] OTHER -> -1

IsUpper(c) ==
    c \in {"A", "B", "C", "D", "E", "F", "G", "H", "I", "J", "K", "L", "M",
           "N", "O", "P", "Q", "R", "S", "T", "U", "V", "W", "X", "Y", "Z"}

UpperChar(c) ==
    CASE c = "a" -> "A" [] c = "b" -> "B" [] c = "c" -> "C" [] c = "o" -> "O"
      [] c = "t" -> "T" [] OTHER -> c

\* dateStr.toUpperCase()
ToUpperCase(s) == [k \in 1..Len(s) |-> UpperChar(s[k])]

\* dateStr.trim()
RECURSIVE TrimEnd(_)
TrimEnd(s) ==
    IF s # <<>> /\ s[Len(s)] = " " THEN TrimEnd(SubSeq(s, 1, Len(s) - 1))
    ELSE s

TrimChars(s) == TrimEnd(SkipSpace(s))

AllDigits(s) == \A k \in 1..Len(s) : IsDigit(s[k])

\* trimmed.match(/^([A-Z]{3})-(\d{4})$/)
MonthYearMatch(t) ==
    /\ Len(t) = 8
    /\ \A k \in 1..3 : IsUpper(t[k])
    /\ t[4] = "-"
    /\ AllDigits(SubSeq(t, 5, 8))

\* trimmed.match(/^(\d{1,2})\/(\d{1,2})\/(\d{4})$/): the groups of the match,
\* no element when the string does not match
MdyMatch(t) ==
    {<<SubSeq(t, 1, p[1]), SubSeq(t, p[1] + 2, p[1] + p[2] + 1),
       SubSeq(t, p[1] + p[2] + 3, Len(t))>> :
        p \in {q \in (1..2) \X (1..2) :
                 /\ Len(t) = q[1] + q[2] + 6
                 /\ t[q[1] + 1] = "/"
                 /\ t[q[1] + q[2] + 2] = "/"
                 /\ AllDigits(SubSeq(t, 1, q[1]))
                 /\ AllDigits(SubSeq(t, q[1] + 2, q[1] + q[2] + 1))
                 /\ AllDigits(SubSeq(t, q[1] + q[2] + 3, Len(t)))}}

\* trimmed.match(/^(\d{4})-(\d{2})-(\d{2})$/)
IsoMatch(t) ==
    /\ Len(t) = 10
    /\ AllDigits(SubSeq(t, 1, 4))
    /\ t[5] = "-"
    /\ AllDigits(SubSeq(t, 6, 7))
    /\ t[8] = "-"
    /\ AllDigits(SubSeq(t, 9, 10))

\* timeStr.match(/(\d{1,2}):(\d{2})/) tried at position k: two digits before
\* the colon when there are two, one otherwise
TimeMatchAt(t, k) ==
    IF /\ k + 4 <= Len(t)
       /\ AllDigits(SubSeq(t, k, k + 1))
       /\ t[k + 2] = ":"
       /\ AllDigits(SubSeq(t, k + 3, k + 4))
    THEN {<<SubSeq(t, k, k + 1), SubSeq(t, k + 3, k + 4)>>}
    ELSE IF /\ k + 3 <= Len(t)
            /\ IsDigit(t[k])
            /\ t[k + 1] = ":"
            /\ AllDigits(SubSeq(t, k + 2, k + 3))
    THEN {<<SubSeq(t, k, k), SubSeq(t, k + 2, k + 3)>>}
    ELSE {}

\* timeStr.match(/(\d{1,2}):(\d{2})/): the groups of the leftmost match, no
\* element when there is none
TimeParts(t) ==
    LET starts == {k \in 1..Len(t) : TimeMatchAt(t, k) # {}}
    IN  IF starts = {} THEN {}
        ELSE TimeMatchAt(t, CHOOSE k \in starts : \A n \in starts : k <= n)

\* if (timeStr) { const timeParts = ...; if (timeParts) date.setHours(...) }
WithTime(date, timeStr) ==
    IF timeStr # <<>> /\ TimeParts(timeStr) # {}
    THEN LET timeParts == CHOOSE p \in TimeParts(timeStr) : TRUE
         IN  setHours(date, Decimal(timeParts[1]), Decimal(timeParts[2]))
    ELSE date

\* What the engine answers for a string outside the formats ECMAScript
\* fixes, when it reads such strings at all
LegacyDate == DateOf(2001, 0, 1, 0, 0)

\* new Date(string).  A date YYYY-MM-DD is midnight UTC of that day, a date and
\* time YYYY-MM-DDTHH:mm is local time, and a field out of range makes the
\* string unreadable.  What is read from any other string, and from a day
\* number up to 31 that its month does not have, is left to the engine:
\* lenient says whether the engine reads it.
DateParse(s, tz, lenient) ==
    LET year == Decimal(SubSeq(s, 1, 4))
        month == Decimal(SubSeq(s, 6, 7))
        day == Decimal(SubSeq(s, 9, 10))
        dayOk == /\ month \in 1..12
                 /\ day >= 1
                 /\ \/ day <= DaysInMonth(year, month - 1)
                    \/ lenient /\ day <= 31
    IN  IF IsoMatch(s)
        THEN IF dayOk THEN MakeDate(year, month - 1, day, tz, 0)
             ELSE InvalidDate
        ELSE IF /\ Len(s) = 16
                /\ IsoMatch(SubSeq(s, 1, 10))
                /\ s[11] = "T"
                /\ AllDigits(SubSeq(s, 12, 13))
                /\ s[14] = ":"
                /\ AllDigits(SubSeq(s, 15, 16))
        THEN IF /\ dayOk
                /\ Decimal(SubSeq(s, 12, 13)) <= 23
                /\ Decimal(SubSeq(s, 15, 16)) <= 59
             THEN MakeDate(year, month - 1, day, Decimal(SubSeq(s, 12, 13)),
                           Decimal(SubSeq(s, 15, 16)))
             ELSE InvalidDate
        ELSE IF lenient /\ \E k \in 1..Len(s) : IsDigit(s[k])
        THEN LegacyDate
        ELSE InvalidDate

parseNHTSADate(dateStr, timeStr, tz, lenient) ==
    IF dateStr = <<>> THEN NULL
    ELSE LET trimmed == ToUpperCase(TrimChars(dateStr))
         IN  IF /\ MonthYearMatch(trimmed)
                /\ MONTH_MAP(SubSeq(trimmed, 1, 3)) # -1
                /\ Decimal(SubSeq(trimmed, 5, 8)) # 0
             THEN WithTime(NewDate(Decimal(SubSeq(trimmed, 5, 8)),
                                   MONTH_MAP(SubSeq(trimmed, 1, 3)), 1),
                           timeStr)
             ELSE IF MdyMatch(trimmed) # {}
             THEN LET mdyMatch == CHOOSE m \in MdyMatch(trimmed) : TRUE
                  IN  WithTime(NewDate(Decimal(mdyMatch[3]),
                                       Decimal(mdyMatch[1]) - 1,
                                       Decimal(mdyMatch[2])),
                               timeStr)
             ELSE IF /\ IsoMatch(trimmed)
                     /\ DateParse(trimmed, tz, lenient) # InvalidDate
             THEN DateParse(trimmed, tz, lenient)
             ELSE IF DateParse(dateStr, tz, lenient) # InvalidDate
             THEN DateParse(dateStr, tz, lenient)
             ELSE NULL

\* const parsedDate = parseNHTSADate(incidentDate, incidentTime);
\* const occurredAt = parsedDate ? parsedDate.toISOString()
\*                               : new Date().toISOString();
ParseDate ==
    /\ call.fn = "date"
    /\ ~call.done
    /\ \E lenient \in BOOLEAN :
         LET parsedDate == parseNHTSADate(call.arg[1], call.arg[2], call.tz,
                                          lenient)
         IN  call' = [call EXCEPT
                        !.done = TRUE,
                        !.ret = parsedDate,
                        !.occurredAt = IF parsedDate # NULL
                                       THEN toISOString(parsedDate, call.tz)
                                       ELSE Now]
    /\ UNCHANGED <<env, adsSource, adasSource, run, pc, seedVars, cacheVars,
                   storageVars, hist>>

(***************************************************************************)
(* CSV lines.                                                              *)
(***************************************************************************)
\* Variant: every comma ends a field, quoted or not
RECURSIVE ScanSplitAll(_, _, _, _, _)
ScanSplitAll(line, k, result, current, inQuotes) ==
    IF k > Len(line) THEN Append(result, TrimChars(current))
    ELSE IF line[k] = "\"" THEN ScanSplitAll(line, k + 1, result, current, ~inQuotes)
    ELSE IF line[k] = ","
    THEN ScanSplitAll(line, k + 1, Append(result, TrimChars(current)), <<>>,
                      inQuotes)
    ELSE ScanSplitAll(line, k + 1, result, Append(current, line[k]), inQuotes)

parseCSVLineSplitAll(line) == ScanSplitAll(line, 1, <<>>, <<>>, FALSE)

\* The loop of parseCSVLine from character k on, and the push after it
RECURSIVE ScanLine(_, _, _, _, _)
ScanLine(line, k, result, current, inQuotes) ==
    IF k > Len(line) THEN Append(result, TrimChars(current))
    ELSE IF line[k] = "\"" THEN ScanLine(line, k + 1, result, current, ~inQuotes)
    ELSE IF line[k] = "," /\ ~inQuotes
    THEN ScanLine(line, k + 1, Append(result, TrimChars(current)), <<>>,
                  inQuotes)
    ELSE ScanLine(line, k + 1, result, Append(current, line[k]), inQuotes)

parseCSVLine(line) == ScanLine(line, 1, <<>>, <<>>, FALSE)

\* const values = parseCSVLine(line)
ParseLine ==
    /\ call.fn = "csvLine"
    /\ ~call.done
    /\ call' = [call EXCEPT !.done = TRUE, !.ret = parseCSVLine(call.arg)]
    /\ UNCHANGED <<env, adsSource, adasSource, run, pc, seedVars, cacheVars,
                   storageVars, hist>>

(***************************************************************************)
(* Company names.                                                          *)
(***************************************************************************)
LowerChar(c) ==
    CASE c = "A" -> "a" [] c = "B" -> "b" [] c = "C" -> "c" [] c = "D" -> "d"
      [] c = "E" -> "e" [] c = "F" -> "f" [] c = "G" -> "g" [] c = "H" -> "h"
      [] c = "I" -> "i" [] c = "J" -> "j" [] c = "K" -> "k" [] c = "L" -> "l"
      [] c = "M" -> "m" [] c = "N" -> "n" [] c = "O" -> "o" [] c = "P" -> "p"
      [] c = "Q" -> "q" [] c = "R" -> "r" [] c = "S" -> "s" [] c = "T" -> "t"
      [] c = "U" -> "u" [] c = "V" -> "v" [] c = "W" -> "w" [] c = "X" -> "x"
      [] c = "Y" -> "y" [] c = "Z" -> "z"
      [] OTHER -> c

\* name.toLowerCase()
LowerChars(s) == [k \in 1..Len(s) |-> LowerChar(s[k])]

\* name.includes(sub)
Includes(s, sub) ==
    \E k \in 0..(Len(s) - Len(sub)) : SubSeq(s, k + 1, k + Len(sub)) = sub

\* A manufacturer column: absent, or its text
Manufacturer(present, text) == [present |-> present, text |-> text]

\* The cascade of mapCompany on the name it computed
CompanyOf(name) ==
    IF Includes(name, <<"w", "a", "y", "m", "o">>)
       \/ Includes(name, <<"a", "l", "p", "h", "a", "b", "e", "t">>)
    THEN "waymo"
    ELSE IF Includes(name, <<"c", "r", "u", "i", "s", "e">>)
            \/ Includes(name, <<"g", "m">>)
    THEN "cruise"
    ELSE IF Includes(name, <<"z", "o", "o", "x">>)
            \/ Includes(name, <<"a", "m", "a", "z", "o", "n">>)
    THEN "zoox"
    ELSE IF Includes(name, <<"t", "e", "s", "l", "a">>)
    THEN "tesla"
    ELSE "other"

\* Variant: the name is compared as it is written
mapCompanyAsWritten(manufacturer) ==
    CompanyOf(IF manufacturer.present THEN manufacturer.text ELSE <<>>)

\* const name = manufacturer?.toLowerCase() || ''
mapCompany(manufacturer) ==
    CompanyOf(IF manufacturer.present THEN LowerChars(manufacturer.text)
              ELSE <<>>)

\* manufacturer: mapCompany(...)
MapCompany ==
    /\ call.fn = "company"
    /\ ~call.done
    /\ call' = [call EXCEPT !.done = TRUE, !.ret = mapCompany(call.arg)]
    /\ UNCHANGED <<env, adsSource, adasSource, run, pc, seedVars, cacheVars,
                   storageVars, hist>>

(***************************************************************************)
(* Narratives.  What narrative.match(pattern) gives for each of the six      *)
(* patterns is an input: the text of the first match, <<>> for null.        *)
(***************************************************************************)
\* .replace(/^(on|at|near|intersection of)\s+/i, ''): the first alternative
\* that s begins with, in any case, and that white space follows is removed
\* together with that white space
StripLeadIn(s) ==
    LET leadIns == <<<<"o", "n">>, <<"a", "t">>, <<"n", "e", "a", "r">>,
                     <<"i", "n", "t", "e", "r", "s", "e", "c", "t", "i", "o", "n", " ", "o", "f">>>>
        found == {k \in 1..Len(leadIns) :
                    /\ Len(s) > Len(leadIns[k])
                    /\ LowerChars(SubSeq(s, 1, Len(leadIns[k]))) = leadIns[k]
                    /\ s[Len(leadIns[k]) + 1] = " "}
    IN  IF found = {} THEN s
        ELSE LET k == CHOOSE f \in found : \A g \in found : f <= g
             IN  SkipSpace(SubSeq(s, Len(leadIns[k]) + 1, Len(s)))

\* let location = match[0].replace(...).trim()
CleanLocation(match) == TrimChars(StripLeadIn(match))

\* What extractLocationFromNarrative returns: null, or a text
Extracted(null, text) == [null |-> null, text |-> text]

\* Variant: the first pattern that matches decides alone
RECURSIVE FirstMatchOnly(_, _)
FirstMatchOnly(matches, k) ==
    IF k > Len(matches) THEN Extracted(TRUE, <<>>)
    ELSE IF matches[k] # <<>>
    THEN IF Len(CleanLocation(matches[k])) > 5
            /\ Len(CleanLocation(matches[k])) < 100
         THEN Extracted(FALSE, CleanLocation(matches[k]))
         ELSE Extracted(TRUE, <<>>)
    ELSE FirstMatchOnly(matches, k + 1)

\* The for loop of extractLocationFromNarrative from pattern k on, and the
\* return after it
RECURSIVE TryPatterns(_, _)
TryPatterns(matches, k) ==
    IF k > Len(matches) THEN Extracted(TRUE, <<>>)
    ELSE IF matches[k] # <<>>
            /\ Len(CleanLocation(matches[k])) > 5
            /\ Len(CleanLocation(matches[k])) < 100
    THEN Extracted(FALSE, CleanLocation(matches[k]))
    ELSE TryPatterns(matches, k + 1)

\* A narrative: whether it is empty, and what its six matches are
Narrative(empty, matches) == [empty |-> empty, matches |-> matches]

\* if (!narrative) return null; ...
ExtractLocation(narrative) ==
    IF narrative.empty THEN Extracted(TRUE, <<>>)
    ELSE TryPatterns(narrative.matches, 1)

\* extractedAddress = extractLocationFromNarrative(narrative)
Extract ==
    /\ call.fn = "narrative"
    /\ ~call.done
    /\ call' = [call EXCEPT !.done = TRUE, !.ret = ExtractLocation(call.arg)]
    /\ UNCHANGED <<env, adsSource, adasSource, run, pc, seedVars, cacheVars,
                   storageVars, hist>>

InitWith(e, ads, adas) ==
    /\ env = e
    /\ adsSource = ads
    /\ adasSource = adas
    /\ run = 1
    /\ pc = "setup"
    /\ adsRecords = <<>>
    /\ adasRecords = <<>>
    /\ locations = <<>>
    /\ i = 0
    /\ tasks = <<>>
    /\ adsProcessed = <<>>
    /\ adasProcessed = <<>>
    /\ totals = NoTotals
    /\ geocodeCache = EmptyMap
    /\ streetGeocodeCache = EmptyMap
    /\ incidents = <<>>
    /\ data_sources = [n \in {} |-> 0]
    /\ sync_log = <<>>
    /\ hist = NewHistory(<<>>)
    /\ call = NoCall

\* The steps of one run of the script
Step ==
    \/ SetupDataSources
    \/ FetchADS
    \/ FetchADAS
    \/ PreGeocodeAllCities
    \/ StartCityBatch
    \/ \E t \in 1..Len(tasks) : CityRespond(t)
    \/ CityBatchDone
    \/ CitySleep
    \/ \E kind \in {"ads", "adas"} : StartRecordBatch(kind)
    \/ \E t \in 1..Len(tasks) : RecordRespond(t)
    \/ \E kind \in {"ads", "adas"} : RecordBatchDone(kind)
    \/ \E kind \in {"ads", "adas"} : CountCoordinateSources(kind)
    \/ \E kind \in {"ads", "adas"} : UpsertBatch(kind)
    \/ UpdateRecordsCount
    \/ LogNHTSA
    \/ SeedDMVSampleData
    \/ LogDMV
    \/ SeedCPUCSampleData
    \/ LogCPUC
    \/ UpdateUserReportCount
    \/ Summary

Next ==
    \/ Step
    \/ RunAgain

(***************************************************************************)
(* Inputs.                                                                 *)
(***************************************************************************)
\* Rows of the ADS endpoint: one with real GPS coordinates and no Report
\* Number, one with a Report Number, no coordinates and a street in its
\* narrative.  Rows of the ADAS endpoint: of the second kind.
PipelineADS ==
    {Rec("", "Austin", "TX", "30.2672", "-97.7431", "", ""),
     Rec("R1", "AUSTIN", "TX", "", "", "", "Crash on Main Street")}

PipelineADAS ==
    {Rec("R1", "austin", "TX", "", "", "", "Crash on Main Street")}

\* The pipeline: the script is run twice on the same rows and the same storage;
\* fetches and upserts may fail, the geocoding service answers.
Init ==
    \E ads \in [1..MaxADS -> PipelineADS], adas \in [1..MaxADAS -> PipelineADAS] :
        InitWith([faults |-> {"fetch", "batch"}, rand |-> {50}, runs |-> 2,
                  extra |-> {}],
                 ads, adas)

Spec == Init /\ [][Next]_vars


\* The resolver: one run in which the geocoding service may fail and
\* Math.random() takes a large value.  ADS rows: real coordinates
\* on the edge of the accepted range and a street in the narrative; a latitude
\* below the range; a city in capitals; no City; no City and coordinates
\* flagged unknown.
\* ADAS rows: a street in the narrative, without real coordinates and, in
\* another city, with them.
GeoPool ==
    {Rec("R1", "Austin", "TX", "18", "-65", "", "Crash on Main Street"),
     Rec("", "Austin", "TX", "17.9999", "-97.7431", "", "Crash on Main Street"),
     Rec("", "AUSTIN", "TX", "", "", "", "Crash on Main Street"),
     Rec("", "", "TX", "", "", "", "Crash on Main Street"),
     Rec("", "", "TX", "30.2672", "-97.7431", "Yes", "")}

GeoPoolADAS ==
    {Rec("R2", "austin", "TX", "", "", "", "Crash on Main Street"),
     Rec("", "San Francisco", "CA", "72", "-180", "", "Crash on Main Street")}

GeoInit ==
    \E ads \in [1..OneRunADS -> GeoPool], adas \in [1..OneRunADAS -> GeoPoolADAS] :
        InitWith([faults |-> {"geocode"}, rand |-> {99}, runs |-> 1,
                  extra |-> {}], ads, adas)

GeoSpec == GeoInit /\ [][Step]_vars

\* One run in which every external call may fail, each call being answered.
LiveInit ==
    \E ads \in [1..OneRunADS -> PipelineADS], adas \in [1..OneRunADAS -> PipelineADAS] :
        InitWith([faults |-> {"fetch", "geocode", "batch"}, rand |-> {50},
                  runs |-> 1, extra |-> {}], ads, adas)

LiveSpec == LiveInit /\ [][Step]_vars /\ WF_vars(Step)

\* The edges: one run in which nothing fails, the service may answer with a
\* point 0.01 degree inside the north-west corner of the coordinate range, and
\* Math.random() takes its least value.  ADS rows: without
\* coordinates, with and without a street in the narrative.
EdgePool ==
    {Rec("", "Austin", "TX", "", "", "", ""),
     Rec("", "AUSTIN", "TX", "", "", "", "Crash on Main Street")}

EdgePoolADAS ==
    {Rec("", "San Francisco", "CA", "", "", "", "Crash on Main Street")}

EdgePoints == {Point(900000 - 100, -1800000 + 100)}

EdgeInit ==
    \E ads \in [1..OneRunADS -> EdgePool], adas \in [1..OneRunADAS -> EdgePoolADAS] :
        InitWith([faults |-> {}, rand |-> {0}, runs |-> 1,
                  extra |-> EdgePoints], ads, adas)

EdgeSpec == EdgeInit /\ [][Step]_vars

\* One run in which the store may answer any upsert of a sample incident with
\* an error, on the rows of the edge runs.
SampleInit ==
    \E ads \in [1..OneRunADS -> EdgePool], adas \in [1..OneRunADAS -> EdgePoolADAS] :
        InitWith([faults |-> {"sample"}, rand |-> {50}, runs |-> 1,
                  extra |-> {}], ads, adas)

SampleSpec == SampleInit /\ [][Step]_vars

\* The fallbacks: one run in which nothing fails and Math.random() takes its
\* least and its greatest value, on rows without coordinates.  ADS rows: a
\* State of the table with a city the service does not know, a full state
\* name, a territory the table does not list, and no State and no City at all.
FallbackPool ==
    {Rec("", "Hagatna", "TX", "", "", "", ""),
     Rec("", "Austin", "Texas", "", "", "", ""),
     Rec("", "Hagatna", "GU", "", "", "", ""),
     Rec("", "", "", "", "", "", "")}

FallbackPoolADAS ==
    {Rec("", "San Francisco", "CA", "", "", "", "Crash on Main Street")}

FallbackInit ==
    \E ads \in [1..OneRunADS -> FallbackPool],
       adas \in [1..OneRunADAS -> FallbackPoolADAS] :
        InitWith([faults |-> {}, rand |-> {0, 99}, runs |-> 1,
                  extra |-> {}], ads, adas)

FallbackSpec == FallbackInit /\ [][Step]_vars

\* The fields of the numeric columns: every string of at most MaxChars
\* characters over a sign, two digits, a letter, a blank and a point.
Chars == {"-", "0", "2", "a", " ", "."}

Fields == UNION {[1..n -> Chars] : n \in 0..MaxChars}

\* The Incident Date column: the four formats, each also with a month or a day
\* that does not exist, a month name that is none, text and the empty field.
DateStrings ==
    {<<"O", "C", "T", "-", "2", "0", "2", "5">>,
     <<"o", "c", "t", "-", "2", "0", "2", "5">>,
     <<" ", "1", "0", "/", "0", "5", "/", "2", "0", "2", "5">>,
     <<"2", "/", "2", "8", "/", "2", "0", "2", "5">>,
     <<"1", "3", "/", "4", "0", "/", "2", "0", "2", "5">>,
     <<"2", "/", "3", "0", "/", "2", "0", "2", "5">>,
     <<"0", "/", "0", "/", "2", "0", "2", "5">>,
     <<"2", "0", "2", "5", "-", "1", "0", "-", "0", "5">>,
     <<"2", "0", "2", "5", "-", "0", "2", "-", "3", "0">>,
     <<"2", "0", "2", "5", "-", "1", "3", "-", "4", "0">>,
     <<"2", "0", "2", "5", "-", "1", "0", "-", "0", "5", "T", "0", "8", ":", "1", "5">>,
     <<"X", "X", "X", "-", "2", "0", "2", "5">>,
     <<"a", "b">>,
     <<>>}

\* The Incident Time (24:00) column
TimeStrings ==
    {<<>>,
     <<"1", "4", ":", "3", "0">>,
     <<"9", ":", "0", "5">>,
     <<"2", "5", ":", "7", "0">>,
     <<"a", "b">>}

\* The hours the host's zone is ahead of UTC
Zones == {0, -8}

\* The CSV lines: every string of at most MaxLine characters over a comma, a
\* double quote, a letter and a blank.
LineChars == {",", "\"", "a", " "}

Lines == UNION {[1..n -> LineChars] : n \in 0..MaxLine}

\* The manufacturer column: absent, or at most MaxWords pieces written one
\* after the other; the pieces are the aliases in upper, lower and mixed case,
\* the two letters of one alias apart, a letter of no alias and a blank.
Words ==
    {<<"w", "a", "y", "m", "o">>,
     <<"A", "L", "P", "H", "A", "B", "E", "T">>,
     <<"C", "r", "u", "i", "s", "e">>,
     <<"g">>,
     <<"M">>,
     <<"z", "o", "o", "x">>,
     <<"A", "m", "a", "z", "o", "n">>,
     <<"T", "e", "s", "l", "a">>,
     <<"x">>,
     <<" ">>}

RECURSIVE Concat(_)
Concat(ws) == IF ws = <<>> THEN <<>> ELSE Head(ws) \o Concat(Tail(ws))

Manufacturers ==
    {Manufacturer(FALSE, <<>>)}
    \cup {Manufacturer(TRUE, Concat(ws)) :
            ws \in UNION {[1..n -> Words] : n \in 0..MaxWords}}

\* The matches of a pattern: none; a street of 6 characters after "on"; one
\* of 5 characters after "At"; a text of 99 characters after "near" and two
\* blanks; a text of 100 characters; a street with a blank behind it.
RECURSIVE Repeat(_, _)
Repeat(c, n) == IF n = 0 THEN <<>> ELSE <<c>> \o Repeat(c, n - 1)

Matches ==
    {<<>>,
     <<"o", "n", " ", "E", "l", "m", " ", "S", "t">>,
     <<"A", "t", " ", "B", " ", "A", "v", "e">>,
     <<"n", "e", "a", "r", " ", " ", "M">> \o Repeat("a", 98),
     <<"M">> \o Repeat("a", 99),
     <<"1", "2", " ", "O", "a", "k", " ", "R", "d", " ">>}

\* The narratives: the empty one, and one for every choice of what the six
\* patterns match
Narratives ==
    {Narrative(TRUE, [k \in 1..6 |-> <<>>])}
    \cup {Narrative(FALSE, ms) : ms \in [1..6 -> Matches]}

\* The parsers: one call of one parsing function on one argument.
ParseInit ==
    /\ \/ \E fn \in {"fatalities", "injuries"}, first \in Fields, second \in Fields :
            call = [fn |-> fn, done |-> FALSE, arg |-> <<first, second>>, ret |-> 0]
       \/ \E line \in Lines :
            call = [fn |-> "csvLine", done |-> FALSE, arg |-> line, ret |-> <<>>]
       \/ \E manufacturer \in Manufacturers :
            call = [fn |-> "company", done |-> FALSE, arg |-> manufacturer,
                    ret |-> ""]
       \/ \E narrative \in Narratives :
            call = [fn |-> "narrative", done |-> FALSE, arg |-> narrative,
                    ret |-> Extracted(TRUE, <<>>)]
       \/ \E dateStr \in DateStrings, timeStr \in TimeStrings, tz \in Zones :
            call = [fn |-> "date", done |-> FALSE, arg |-> <<dateStr, timeStr>>,
                    tz |-> tz, ret |-> NULL, occurredAt |-> NULL]
    /\ env = [faults |-> {}, rand |-> {50}, runs |-> 1, extra |-> {}]
    /\ adsSource = <<>>
    /\ adasSource = <<>>
    /\ run = 1
    /\ pc = "done"
    /\ adsRecords = <<>>
    /\ adasRecords = <<>>
    /\ locations = <<>>
    /\ i = 0
    /\ tasks = <<>>
    /\ adsProcessed = <<>>
    /\ adasProcessed = <<>>
    /\ totals = NoTotals
    /\ geocodeCache = EmptyMap
    /\ streetGeocodeCache = EmptyMap
    /\ incidents = <<>>
    /\ data_sources = [n \in {} |-> 0]
    /\ sync_log = <<>>
    /\ hist = NewHistory(<<>>)

ParseNext ==
    \/ ParseFatalities
    \/ ParseInjuries
    \/ ParseDate
    \/ ParseLine
    \/ MapCompany
    \/ Extract

ParseSpec == ParseInit /\ [][ParseNext]_vars

(***************************************************************************)
(* Properties.                                                             *)
(***************************************************************************)
\* The results of processADSRecord / processADASRecord the run has so far:
\* those pushed to adsProcessed and adasProcessed and those of the settled
\* promises of the current batch.
Outputs ==
    {adsProcessed[k] : k \in 1..Len(adsProcessed)}
    \cup {adasProcessed[k] : k \in 1..Len(adasProcessed)}
    \cup {tasks[t].out : t \in {n \in 1..Len(tasks) : tasks[n].out # NULL}}

\* C1, with the condition it needs: the store never holds two incidents with
\* the same external_id and a row keeps the id it was inserted with, whatever
\* failed in the runs so far; and when no fetch and no batch of the first run
\* failed, the store holds as many incidents after the second run as after the
\* first.
C1_IdempotentUpsert ==
    /\ \A j, k \in 1..Len(incidents) :
         incidents[j].external_id = incidents[k].external_id => j = k
    /\ \A k \in 1..Len(incidents) : incidents[k].id = k
    /\ (Len(hist.prev) = 2 /\ hist.prev[1].storedAll)
         => hist.prev[2].count = hist.prev[1].count

\* C1: a second run has ended after a first run that stored every batch, and
\* it has written again an NHTSA incident the first run inserted.
C1_SecondRunUpdatesInPlace ==
    /\ Len(hist.prev) = 2
    /\ hist.prev[1].storedAll
    /\ hist.prev[1].count > Len(dmvIncidents) + Len(cpucIncidents)
    /\ \E k \in 1..Len(incidents) :
         incidents[k].source = "nhtsa" /\ incidents[k].reported_at = 2

\* C1 as stated: the count after the second run equals the count after the
\* first, for every first run.
C1_AsStated ==
    /\ \A j, k \in 1..Len(incidents) :
         incidents[j].external_id = incidents[k].external_id => j = k
    /\ Len(hist.prev) = 2 => hist.prev[2].count = hist.prev[1].count

\* C2 as stated: when the ADS fetch succeeded and the ADAS fetch failed, the
\* ADS records are processed and submitted to the store before seedNHTSAData
\* goes on to update the record counts.
C2_AsStated ==
    (pc = "countUpdate" /\ hist.ads = "ok" /\ hist.adas = "fail")
        => /\ Len(adsProcessed) = Len(adsRecords)
           /\ \E k \in 1..Len(hist.upserts) : hist.upserts[k].kind = "ads"

\* C3: a run in which a fetch of NHTSA data failed does not get to the summary
\* of main without seedNHTSAData having returned and without the DMV seeding,
\* the CPUC seeding, the user-report count update and the three sync-log
\* inserts of that run.
C3_FailureStaysInside ==
    (pc \in {"summary", "done"} /\ (hist.ads = "fail" \/ hist.adas = "fail"))
        => /\ {"seedNHTSAData", "seedDMVSampleData", "seedCPUCSampleData",
               "updateUserReportCount"} \subseteq hist.called
           /\ \A k \in 1..Len(dmvIncidents) : \E j \in 1..Len(incidents) :
                /\ incidents[j].external_id = dmvIncidents[k].external_id
                /\ incidents[j].reported_at = run
           /\ \A k \in 1..Len(cpucIncidents) : \E j \in 1..Len(incidents) :
                /\ incidents[j].external_id = cpucIncidents[k].external_id
                /\ incidents[j].reported_at = run
           /\ \A name \in {"NHTSA SGO", "California DMV", "CPUC"} :
                \E j \in 1..Len(sync_log) :
                    /\ sync_log[j].source_name = name
                    /\ sync_log[j].completed_at = run

\* C3: a second run whose ADS fetch failed has ended, after a first run a
\* fetch of which failed too and which left only the sample incidents.
C3_FailedRunEnded ==
    /\ pc = "done"
    /\ run = 2
    /\ hist.ads = "fail"
    /\ ~hist.prev[1].storedAll
    /\ hist.prev[1].count = Len(dmvIncidents) + Len(cpucIncidents)

\* C4: a step that submits a batch adds the size of the batch to totalErrors
\* and leaves totalInserted and totalSkipped alone when the answer is an error,
\* adds the returned rows to totalInserted and the rest of the batch to
\* totalSkipped when it is not, and stays in the insert loop either way; and
\* when seedNHTSAData leaves its try block after both fetches, every batch of
\* both sources has been submitted.
C4_BatchErrorIsCounted ==
    /\ [](pc = "countUpdate" /\ hist.adas = "ok"
            => \A kind \in {"ads", "adas"} :
                 \A from \in {n \in 0..(Len(IncidentsOf(kind)) - 1) : n % batchSize = 0} :
                   \E k \in 1..Len(hist.upserts) :
                     /\ hist.upserts[k].kind = kind
                     /\ hist.upserts[k].from = from)
    /\ [][Len(hist'.upserts) = Len(hist.upserts) + 1
            => LET u == hist'.upserts[Len(hist'.upserts)]
               IN  /\ pc' = pc
                   /\ u.size = Len(Slice(IncidentsOf(u.kind), i, i + batchSize))
                   /\ IF u.error
                      THEN /\ totals'.totalErrors = totals.totalErrors + u.size
                           /\ totals'.totalInserted = totals.totalInserted
                           /\ totals'.totalSkipped = totals.totalSkipped
                      ELSE /\ totals'.totalErrors = totals.totalErrors
                           /\ totals'.totalInserted = totals.totalInserted + u.returned
                           /\ totals'.totalSkipped =
                                totals.totalSkipped + u.size - u.returned]_vars

\* C4: the first ADS batch failed, a later ADS batch was stored with fewer
\* rows returned than submitted, and an ADAS batch followed.
C4_LaterBatchesSubmitted ==
    \E j, k, m \in 1..Len(hist.upserts) :
        /\ j < k /\ k < m
        /\ hist.upserts[j].kind = "ads" /\ hist.upserts[j].error
        /\ hist.upserts[k].kind = "ads" /\ ~hist.upserts[k].error
        /\ hist.upserts[k].returned < hist.upserts[k].size
        /\ hist.upserts[m].kind = "adas"
        /\ totals.totalErrors > 0 /\ totals.totalSkipped > 0

\* C5: when every external call is answered, a run of main that has started
\* gets to the end of main, past its summary, whatever fetches, geocoding
\* requests and batch upserts fail.
C5_RunReachesSummary == (pc = "setup") ~> (pc = "done")

\* C5: a run has ended in which geocoding requests and a batch upsert failed.
C5_EndedDespiteFailures ==
    /\ pc = "done"
    /\ hist.failed # {}
    /\ \E k \in 1..Len(hist.upserts) : hist.upserts[k].error

\* C6: a record whose coordinates are not flagged unknown, are numeric and lie
\* in 18..72 and -180..-65 yields exactly these coordinates, is tagged
\* hasRealCoords and not hasStreetCoords, and neither the narrative extraction
\* nor the geocoding service was called for it.
C6_RealCoordinatesBypass ==
    \A o \in Outputs :
        LET record == o.trace.record
        IN  (/\ ToLowerCase(record.LatitudeUnknown) # "yes"
             /\ ToLowerCase(record.LongitudeUnknown) # "yes"
             /\ ~IsNaNFloat(record.Latitude)
             /\ ~IsNaNFloat(record.Longitude)
             /\ 180000 <= ParseFloat(record.Latitude)
             /\ ParseFloat(record.Latitude) <= 720000
             /\ -1800000 <= ParseFloat(record.Longitude)
             /\ ParseFloat(record.Longitude) <= -650000)
            => /\ o.incident.location =
                    Point(ParseFloat(record.Latitude), ParseFloat(record.Longitude))
               /\ o.hasRealCoords
               /\ ~o.hasStreetCoords
               /\ o.trace.calls = {}
               /\ o.trace.tier = "real"

\* C6: an ADS record on the lower edge of the range and an ADAS record on its
\* upper edge, both with a street in the narrative, have been processed.
C6_EdgeRecordsProcessed ==
    /\ \E k \in 1..Len(adsProcessed) :
         /\ adsProcessed[k].incident.location = Point(180000, -650000)
         /\ adsProcessed[k].trace.record.Narrative = "Crash on Main Street"
    /\ \E k \in 1..Len(adasProcessed) :
         /\ adasProcessed[k].incident.location = Point(720000, -1800000)
         /\ adasProcessed[k].trace.record.Narrative = "Crash on Main Street"

\* C7: a step in which a street lookup gets a top result more than 0.5 degree
\* from the cached center of the record's city returns null, sets the street
\* key to not-found, leaves the record without hasStreetCoords and gives it the
\* coordinates of getCoordinates for its city and state.
C7_FarResultRejected ==
    [][\A t \in 1..Len(tasks) :
        (/\ pc \in {"adsWait", "adasWait"}
         /\ pc' = pc
         /\ tasks[t].st = "wait"
         /\ tasks'[t].st = "done"
         /\ tasks'[t].out.trace.svc # NULL
         /\ Get(geocodeCache, CityKey(CityOf(tasks'[t].out.trace.record),
                                      StateOf(tasks'[t].out.trace.record))) # NULL
         /\ TooFar(tasks'[t].out.trace.svc.lat, tasks'[t].out.trace.svc.lng,
                   Get(geocodeCache, CityKey(CityOf(tasks'[t].out.trace.record),
                                             StateOf(tasks'[t].out.trace.record)))))
        => /\ tasks'[t].ret = NULL
           /\ Has(streetGeocodeCache', tasks[t].key)
           /\ Get(streetGeocodeCache', tasks[t].key) = NULL
           /\ ~tasks'[t].out.hasStreetCoords
           /\ ~tasks'[t].out.hasRealCoords
           /\ tasks'[t].out.incident.location \in
                {getCoordinates(geocodeCache, CityOf(tasks'[t].out.trace.record),
                                StateOf(tasks'[t].out.trace.record), r[1], r[2]) :
                    r \in env.rand \X env.rand}]_vars

\* C7: a record whose street result lay just beyond 0.5 degree from the cached
\* center of its city has been given the jittered city center.
C7_FarResultSeen ==
    \E o \in Outputs :
        /\ o.trace.svc = Point(302672 + 5000, -977431 + 1)
        /\ o.trace.cmp = Point(302672, -977431)
        /\ ~o.hasStreetCoords
        /\ o.trace.tier = "city"

\* C8 as stated: every result tagged hasStreetCoords lies within 0.5 degree of
\* a center the city cache holds for the record's city and state.
C8_AsStated ==
    \A o \in Outputs :
        o.hasStreetCoords
            => LET center == Get(geocodeCache, CityKey(CityOf(o.trace.record),
                                                       StateOf(o.trace.record)))
               IN  /\ center # NULL
                   /\ ~TooFar(o.incident.location.lat, o.incident.location.lng,
                              center)

\* C9 as stated: no cache key is requested from the geocoding service more
\* than once in a run.
C9_AsStated == \A k \in DOMAIN hist.requests : hist.requests[k] <= 1

\* C10 as stated: a key a lookup of which has failed is mapped to not-found by
\* its cache, and a lookup of it that starts afterwards does not contact the
\* service and returns null.
C10_AsStated ==
    /\ \A k \in hist.failed :
         /\ Has(geocodeCache, k) \/ Has(streetGeocodeCache, k)
         /\ Get(geocodeCache, k) = NULL
         /\ Get(streetGeocodeCache, k) = NULL
    /\ \A t \in 1..Len(tasks) :
         tasks[t].afterFail => ~tasks[t].contacted /\ tasks[t].ret = NULL

C12_AsStated ==
    \A o \in Outputs :
        (~o.hasRealCoords /\ ~o.hasStreetCoords)
            => LET city == CityOf(o.trace.record)
                   state == StateOf(o.trace.record)
                   key == CityKey(city, state)
               IN  IF Get(geocodeCache, key) # NULL
                   THEN /\ o.trace.tier = "city"
                        /\ o.incident.location \in
                             {getCoordinates(geocodeCache, city, state, r[1], r[2]) :
                                 r \in env.rand \X env.rand}
                   ELSE /\ Has(geocodeCache, key)
                        /\ key \in DOMAIN hist.requests

\* C13 as stated: the incidents made from two different rows of one CSV have
\* different external_ids, and the external_id of an incident is the one its
\* row and index determine.
C13_AsStated ==
    /\ \A j, k \in 1..Len(adsProcessed) :
         adsProcessed[j].incident.external_id = adsProcessed[k].incident.external_id
            => j = k
    /\ \A j, k \in 1..Len(adasProcessed) :
         adasProcessed[j].incident.external_id = adasProcessed[k].incident.external_id
            => j = k
    /\ \A k \in 1..Len(adsProcessed) :
         adsProcessed[k].incident.external_id
            = ExternalId("ads", adsRecords[k], k - 1)

\* C14 as stated: every result of processADSRecord / processADASRecord has a
\* location, with a latitude in -90..90 and a longitude in -180..180.
C14_AsStated ==
    \A o \in Outputs :
        /\ o.incident.location # NULL
        /\ -900000 <= o.incident.location.lat
        /\ o.incident.location.lat <= 900000
        /\ -1800000 <= o.incident.location.lng
        /\ o.incident.location.lng <= 1800000

\* C15 as stated: the fatalities and the injuries of an incident are never
\* below zero, whatever the two columns they are read from hold.
C15_AsStated ==
    (call.fn \in {"fatalities", "injuries"} /\ call.done) => call.ret >= 0

\* C16 as stated: a date of the form MM/DD/YYYY whose month is not one of
\* 1..12, or whose day is not a day of that month, parses to null, and the
\* incident's occurred_at is then the time of ingestion.
C16_AsStated ==
    (/\ call.fn = "date"
     /\ call.done
     /\ MdyMatch(ToUpperCase(TrimChars(call.arg[1]))) # {}
     /\ LET mdyMatch == CHOOSE m \in MdyMatch(ToUpperCase(TrimChars(call.arg[1]))) : TRUE
            month == Decimal(mdyMatch[1])
            day == Decimal(mdyMatch[2])
            year == Decimal(mdyMatch[3])
        IN  \/ month \notin 1..12
            \/ day \notin 1..DaysInMonth(year, month - 1))
    => (call.ret = NULL /\ call.occurredAt = Now)

\* C17 as stated: whenever a date is resolved and the time column holds a
\* time HH:MM, the returned instant reads HH hours and MM minutes, whichever
\* of the four formats the date was written in.
C17_AsStated ==
    (/\ call.fn = "date"
     /\ call.done
     /\ call.ret # NULL
     /\ TimeParts(call.arg[2]) # {}
     /\ LET timeParts == CHOOSE p \in TimeParts(call.arg[2]) : TRUE
        IN  /\ Len(call.arg[2]) = Len(timeParts[1]) + 3
            /\ Decimal(timeParts[1]) <= 23
            /\ Decimal(timeParts[2]) <= 59)
    => LET timeParts == CHOOSE p \in TimeParts(call.arg[2]) : TRUE
       IN  /\ call.ret.hours = Decimal(timeParts[1])
           /\ call.ret.minutes = Decimal(timeParts[2])

\* The rows of sync_log for one source written in the current run
RowsOf(name) ==
    {j \in 1..Len(sync_log) :
        sync_log[j].source_name = name /\ sync_log[j].completed_at = run}

\* The call of main that seeds a source, and the one that seeds the next
SeedingOf(name) ==
    CASE name = "NHTSA SGO" -> "seedNHTSAData"
      [] name = "California DMV" -> "seedDMVSampleData"
      [] name = "CPUC" -> "seedCPUCSampleData"

NextSeedingOf(name) ==
    CASE name = "NHTSA SGO" -> "seedDMVSampleData"
      [] name = "California DMV" -> "seedCPUCSampleData"
      [] name = "CPUC" -> "updateUserReportCount"

C19_LogOnlyGrows ==
    /\ [][/\ Len(sync_log') >= Len(sync_log)
          /\ \A j \in 1..Len(sync_log) : sync_log'[j] = sync_log[j]]_vars
    /\ [](run = 2 => /\ Len(sync_log) >= 3
                     /\ \A j \in 1..3 : sync_log[j].completed_at = 1
                     /\ \A j \in 4..Len(sync_log) : sync_log[j].completed_at = 2)

\* C19: the second run has written its row for California DMV behind the
\* three rows of the first run and its own row for NHTSA SGO.
C19_SecondRunAppended ==
    /\ run = 2
    /\ pc = "seedCPUC"
    /\ Len(sync_log) = 5
    /\ sync_log[2].source_name = sync_log[5].source_name

\* C20: no result of processADSRecord or processADASRecord is tagged both
\* hasRealCoords and hasStreetCoords; the three counts are never negative;
\* and when seedNHTSAData leaves its try block, realCoordsCount,
\* streetCoordsCount and fallbackCoordsCount are the numbers of processed ADS
\* and ADAS records tagged hasRealCoords only, hasStreetCoords only and
\* neither, and their sum is the number of records processed.
C20_OneAccuracyClass ==
    /\ \A o \in Outputs : ~(o.hasRealCoords /\ o.hasStreetCoords)
    /\ totals.realCoordsCount >= 0
    /\ totals.streetCoordsCount >= 0
    /\ totals.fallbackCoordsCount >= 0
    /\ pc = "countUpdate"
        => LET processed == adsProcessed \o adasProcessed
               tagged(real, street) ==
                   Cardinality({k \in 1..Len(processed) :
                                   /\ processed[k].hasRealCoords = real
                                   /\ processed[k].hasStreetCoords = street})
           IN  /\ totals.realCoordsCount = tagged(TRUE, FALSE)
               /\ totals.streetCoordsCount = tagged(FALSE, TRUE)
               /\ totals.fallbackCoordsCount = tagged(FALSE, FALSE)
               /\ totals.realCoordsCount + totals.streetCoordsCount
                    + totals.fallbackCoordsCount = Len(processed)

\* C20: seedNHTSAData has left its try block with a record in each of the
\* three classes.
C20_AllThreeClasses ==
    /\ pc = "countUpdate"
    /\ totals.realCoordsCount = 1
    /\ totals.streetCoordsCount = 1
    /\ totals.fallbackCoordsCount = 1
    /\ Len(adsProcessed) = 2
    /\ Len(adasProcessed) = 1

\* C21: the line scanner yields one field more than the line has commas with
\* an even number of double quotes before them, and no field holds a double
\* quote.
C21_QuotedCommasDoNotSplit ==
    (call.fn = "csvLine" /\ call.done)
    => LET line == call.arg
           quotesBefore(k) == Cardinality({j \in 1..(k - 1) : line[j] = "\""})
           splitting == {k \in 1..Len(line) :
                            line[k] = "," /\ quotesBefore(k) % 2 = 0}
       IN  /\ Len(call.ret) = 1 + Cardinality(splitting)
           /\ \A f \in 1..Len(call.ret) : \A k \in 1..Len(call.ret[f]) :
                call.ret[f][k] # "\""

\* C21: a line with a comma inside quotes and a comma outside them has been
\* scanned into two fields.
C21_QuotedCommaScanned ==
    /\ call.fn = "csvLine"
    /\ call.done
    /\ call.arg = <<"\"", ",", "\"", ",">>
    /\ call.ret = <<<<",">>, <<>>>>

\* C22: mapCompany answers one of waymo, cruise, zoox, tesla and other:
\* waymo exactly when the lower-cased manufacturer holds waymo or alphabet;
\* cruise exactly when it holds neither and holds cruise or gm; zoox exactly
\* when it holds none of those four and holds zoox or amazon; tesla exactly
\* when it holds none of those six and holds tesla; and other exactly when it
\* holds none of the seven, as an empty or absent manufacturer does.
C22_AliasCascade ==
    (call.fn = "company" /\ call.done)
    => LET name == IF call.arg.present THEN LowerChars(call.arg.text) ELSE <<>>
           w == Includes(name, <<"w", "a", "y", "m", "o">>)
                \/ Includes(name, <<"a", "l", "p", "h", "a", "b", "e", "t">>)
           c == Includes(name, <<"c", "r", "u", "i", "s", "e">>)
                \/ Includes(name, <<"g", "m">>)
           z == Includes(name, <<"z", "o", "o", "x">>)
                \/ Includes(name, <<"a", "m", "a", "z", "o", "n">>)
           t == Includes(name, <<"t", "e", "s", "l", "a">>)
       IN  /\ call.ret \in {"waymo", "cruise", "zoox", "tesla", "other"}
           /\ call.ret = "waymo" <=> w
           /\ call.ret = "cruise" <=> ~w /\ c
           /\ call.ret = "zoox" <=> ~w /\ ~c /\ z
           /\ call.ret = "tesla" <=> ~w /\ ~c /\ ~z /\ t
           /\ call.ret = "other" <=> ~w /\ ~c /\ ~z /\ ~t
           /\ (~call.arg.present \/ call.arg.text = <<>>) => call.ret = "other"

\* C22: a name written in capitals that holds an alias of waymo and, after
\* it, the name tesla has been mapped to waymo.
C22_CapitalAliasMapped ==
    /\ call.fn = "company"
    /\ call.done
    /\ call.arg = Manufacturer(TRUE, <<"A", "L", "P", "H", "A", "B", "E", "T", "T", "e", "s", "l", "a">>)
    /\ call.ret = "waymo"

\* C23 as stated: once a run has updated the counts, the records_count of
\* each data source is the number of stored incidents of its source: 'nhtsa'
\* for the two NHTSA entries, 'dmv' for California DMV and 'cpuc' for CPUC,
\* also when an upsert of the source was answered with an error.
C23_AsStated ==
    pc \in {"summary", "done"}
    => /\ data_sources["NHTSA SGO (ADS)"] = CountSource(incidents, "nhtsa")
       /\ data_sources["NHTSA SGO (ADAS)"] = CountSource(incidents, "nhtsa")
       /\ data_sources["California DMV"] = CountSource(incidents, "dmv")
       /\ data_sources["CPUC"] = CountSource(incidents, "cpuc")

\* C24 as stated: within a run no step changes the value a key already has in
\* the city cache or in the street cache, nor removes the key, two lookups of
\* one key that are in flight together and get different answers included.
C24_AsStated ==
    [][run' = run
        => /\ \A k \in DOMAIN geocodeCache :
                /\ k \in DOMAIN geocodeCache'
                /\ geocodeCache'[k] = geocodeCache[k]
           /\ \A k \in DOMAIN streetGeocodeCache :
                /\ k \in DOMAIN streetGeocodeCache'
                /\ streetGeocodeCache'[k] = streetGeocodeCache[k]]_vars

\* C25 as stated: the NHTSA SGO row a run writes to sync_log has a status
\* other than 'success' when a fetch of the run failed or one of its batches
\* was answered with an error.
C25_AsStated ==
    \A j \in 1..Len(sync_log) :
        (/\ sync_log[j].source_name = "NHTSA SGO"
         /\ sync_log[j].completed_at = run
         /\ ~RunStoredAll)
        => sync_log[j].status # "success"

\* The (city, state) pairs of the ADS records and of the ADAS records that
\* are processed
RecordPairs ==
    {<<r.City, r.State>> :
        r \in {q \in {adsRecords[k] : k \in 1..Len(adsRecords)}
                    \cup {adasRecords[k] :
                            k \in 1..Len(adasRecords) \cap 1..adasLimit} :
                 q.City # "" /\ q.State # ""}}

\* C26: while records are being processed, and whenever a call of
\* processADSRecord or processADASRecord exists, every city lookup has
\* settled and the city cache has an entry for every (city, state) pair of
\* the ADS records and of the ADAS records to process; and from the first
\* processing step to the end of the run no step changes the city cache.
C26_PreGeocodingFirst ==
    /\ []((\/ pc \in {"adsBatch", "adsWait", "adsCount", "adsUpsert",
                      "adasBatch", "adasWait", "adasCount", "adasUpsert"}
           \/ \E t \in 1..Len(tasks) : tasks[t].kind \in {"ads", "adas"})
          => /\ \A t \in 1..Len(tasks) :
                  ~(tasks[t].kind = "city" /\ tasks[t].st = "wait")
             /\ \A p \in RecordPairs : Has(geocodeCache, CityKey(p[1], p[2])))
    /\ [][(pc \notin {"setup", "fetchADS", "fetchADAS", "pregeo", "cityBatch",
                      "cityWait", "citySleep"} /\ run' = run)
            => geocodeCache' = geocodeCache]_vars

\* C26: a record's street lookup is in flight while the city cache holds the
\* centers of two cities, after a pre-geocoding of two batches.
C26_ProcessingAfterTwoBatches ==
    /\ pc = "adsWait"
    /\ \E t \in 1..Len(tasks) : tasks[t].kind = "ads" /\ tasks[t].st = "wait"
    /\ hist.slept = 1
    /\ Cardinality(DOMAIN geocodeCache) = 2

\* C27: every upsert holds between one and batchSize incidents; the upserts
\* of a run come in the order of the rows, those of ADS before those of ADAS,
\* each starting where the one before it ended; the step that submits a batch
\* of a source finds every record of that source processed and no lookup
\* outstanding, and submits the incidents from the loop index on; at most
\* adsBatchSize records are in flight at a time; and when seedNHTSAData leaves
\* its try block after both fetches, every incident of either source lies in
\* exactly one submitted batch.
C27_BatchesInOrder ==
    /\ [](/\ \A k \in 1..Len(hist.upserts) :
                hist.upserts[k].size \in 1..batchSize
          /\ \A k \in 1..(Len(hist.upserts) - 1) :
                LET this == hist.upserts[k]
                    next == hist.upserts[k + 1]
                IN  IF this.kind = next.kind
                    THEN next.from = this.from + this.size
                    ELSE this.kind = "ads" /\ next.kind = "adas" /\ next.from = 0
          /\ hist.upserts # <<>> => hist.upserts[1].from = 0
          /\ Cardinality({t \in 1..Len(tasks) :
                /\ tasks[t].kind \in {"ads", "adas"}
                /\ tasks[t].st = "wait"}) <= adsBatchSize)
    /\ [](pc = "countUpdate" /\ hist.adas = "ok"
            => \A kind \in {"ads", "adas"} :
                 \A n \in 1..Len(IncidentsOf(kind)) :
                   Cardinality({k \in 1..Len(hist.upserts) :
                       /\ hist.upserts[k].kind = kind
                       /\ hist.upserts[k].from < n
                       /\ n <= hist.upserts[k].from + hist.upserts[k].size}) = 1)
    /\ [][Len(hist'.upserts) = Len(hist.upserts) + 1
            => LET u == hist'.upserts[Len(hist'.upserts)]
               IN  /\ pc = u.kind \o "Upsert"
                   /\ u.from = i
                   /\ Len(ProcessedOf(u.kind)) = Len(RecordsOf(u.kind))
                   /\ \A t \in 1..Len(tasks) : tasks[t].st = "done"]_vars

\* C27: seedNHTSAData has left its try block after two ADS batches, the
\* first of which the store answered with an error, and one ADAS batch.
C27_ThreeBatchesSubmitted ==
    /\ pc = "countUpdate"
    /\ Len(hist.upserts) = 3
    /\ hist.upserts[1].error
    /\ hist.upserts[1].size = batchSize
    /\ hist.upserts[2].kind = "ads"
    /\ hist.upserts[3].kind = "adas"

\* The number of incidents in the first n upserts answered so far in the run
RECURSIVE Answered(_)
Answered(n) ==
    IF n = 0 THEN 0 ELSE Answered(n - 1) + hist.upserts[n].size

\* C29: with a store that returns no more rows than it was sent, the sum of
\* totalInserted, totalSkipped and totalErrors is at every moment the number
\* of incidents in the batches answered so far in the run, none of the three
\* is negative, and no step of the run lowers any of them.
C29_CountersAddUp ==
    /\ [](/\ totals.totalInserted + totals.totalSkipped + totals.totalErrors
                = Answered(Len(hist.upserts))
          /\ totals.totalInserted >= 0
          /\ totals.totalSkipped >= 0
          /\ totals.totalErrors >= 0)
    /\ [][run' = run
            => /\ totals'.totalInserted >= totals.totalInserted
               /\ totals'.totalSkipped >= totals.totalSkipped
               /\ totals'.totalErrors >= totals.totalErrors]_vars

\* C29: one batch of the run was answered with an error, one with fewer rows
\* than it held, and each of the three counters has counted.
C29_AllThreeCounted ==
    /\ totals.totalInserted > 0
    /\ totals.totalSkipped > 0
    /\ totals.totalErrors > 0
    /\ Len(hist.upserts) = 2

C28_FirstInRangeRule ==
    (call.fn = "narrative" /\ call.done)
    => LET matches == call.arg.matches
           inRange == {k \in 1..6 :
                          /\ matches[k] # <<>>
                          /\ Len(CleanLocation(matches[k])) \in 6..99}
       IN  IF call.arg.empty \/ inRange = {}
           THEN call.ret.null
           ELSE /\ ~call.ret.null
                /\ call.ret.text
                     = CleanLocation(matches[CHOOSE k \in inRange :
                                                \A n \in inRange : k <= n])
                /\ Len(call.ret.text) \in 6..99

\* C28: the first pattern matched a text that is too short, the second a text
\* that is too long, the third none, and the match of the fourth was returned
\* without its lead-in, although the fifth matched in range too.
C28_LowerRuleReturned ==
    /\ call.fn = "narrative"
    /\ call.done
    /\ Len(CleanLocation(call.arg.matches[1])) = 5
    /\ Len(CleanLocation(call.arg.matches[2])) = 100
    /\ call.arg.matches[3] = <<>>
    /\ Len(call.arg.matches[4]) = 105
    /\ Len(call.arg.matches[5]) = 10
    /\ ~call.ret.null
    /\ Len(call.ret.text) = 99

====
